---- MODULE Spec2Model ----
(***************************************************************************)
(* Model of the clickhouse-filters crate: the filter condition / filter   *)
(* expression compiler (src/lib/filtering.rs), the registry-driven        *)
(* coercion of flat filter items (src/lib/mod.rs) and the flat-filter     *)
(* grouper FilterBuilder::from_json_filters.                              *)
(*                                                                         *)
(* SQL text and every caller-supplied string is a sequence of one-        *)
(* character strings, so that rendered SQL can be compared character by   *)
(* character.  Option<T> is a sequence of length 0 (None) or 1 (Some).    *)
(* Result<T> is a record [ok |-> TRUE, val |-> t] or [ok |-> FALSE,       *)
(* err |-> message].                                                      *)
(***************************************************************************)
EXTENDS Integers, Sequences, FiniteSets, TLC

(***************************************************************************)
(* Bounds of the model.                                                    *)
(***************************************************************************)
\* longest caller-supplied literal drawn for a rendered condition
MaxLen == 3
\* longest flat filter list handed to from_json_filters
MaxFilters == 3
\* most children of a Group handed to FilterExpression::to_sql
MaxChildren == 2
\* longest column list handed to Sorting::new
MaxColumns == 3

\* the longest filter list of the connector-text runs
MaxConnectorFilters == 2

\* the most appends made to one FilterBuilder
MaxAppends == 3

\* the longest expression list of one FilteringOptions
MaxExpressions == 3

(***************************************************************************)
(* Text helpers.                                                           *)
(***************************************************************************)
None == << >>

Some(v) == << v >>

IsSome(o) == Len(o) = 1

Ok(v) == [ok |-> TRUE, val |-> v]

Err(e) == [ok |-> FALSE, err |-> e]

SP == << " " >>

Q == << "'" >>

LP == << "(" >>

RP == << ")" >>

CommaSp == << ",", " " >>

LowerP == << "l", "o", "w", "e", "r", "(" >>

Where == << " ", "W", "H", "E", "R", "E", " " >>

Digits == << "0", "1", "2", "3", "4", "5", "6", "7", "8", "9" >>

LowerLetters ==
  << "a", "b", "c", "d", "e", "f", "g", "h", "i", "j", "k", "l", "m",
     "n", "o", "p", "q", "r", "s", "t", "u", "v", "w", "x", "y", "z" >>

UpperLetters ==
  << "A", "B", "C", "D", "E", "F", "G", "H", "I", "J", "K", "L", "M",
     "N", "O", "P", "Q", "R", "S", "T", "U", "V", "W", "X", "Y", "Z" >>

\* all sequences over alphabet A of length at most n
RECURSIVE SeqsUpTo(_, _)
SeqsUpTo(A, n) ==
  IF n = 0 THEN { << >> }
  ELSE LET shorter == SeqsUpTo(A, n - 1)
       IN  shorter \cup { Append(s, a) : s \in shorter, a \in A }

\* str::to_uppercase on one character (ASCII letters; others unchanged)
UpperChar(c) ==
  IF \E i \in 1..26 : LowerLetters[i] = c
  THEN UpperLetters[CHOOSE i \in 1..26 : LowerLetters[i] = c]
  ELSE c

\* str::to_uppercase
ToUpper(s) == [i \in 1..Len(s) |-> UpperChar(s[i])]

\* i64::to_string (also used for the narrower integer types)
RECURSIVE NatToStr(_)
NatToStr(n) ==
  IF n < 10 THEN << Digits[n + 1] >>
  ELSE Append(NatToStr(n \div 10), Digits[(n % 10) + 1])

IntToStr(n) == IF n < 0 THEN << "-" >> \o NatToStr(0 - n) ELSE NatToStr(n)

\* str::replace('\'', "''") dropping the doubling (a plausible slip)
EscapeNoDoubling(value) == value

\* FilterCondition::escape_string: str::replace('\'', "''")
RECURSIVE escape_string(_)
escape_string(value) ==
  IF value = << >> THEN << >>
  ELSE IF Head(value) = "'"
       THEN << "'", "'" >> \o escape_string(Tail(value))
       ELSE << Head(value) >> \o escape_string(Tail(value))

\* str::split(','): always at least one piece, pieces may be empty
RECURSIVE Split(_)
Split(s) ==
  IF \A i \in 1..Len(s) : s[i] # ","
  THEN << s >>
  ELSE LET k == CHOOSE i \in 1..Len(s) :
                   s[i] = "," /\ \A j \in 1..(i - 1) : s[j] # ","
       IN  << SubSeq(s, 1, k - 1) >> \o Split(SubSeq(s, k + 1, Len(s)))

\* str::trim (the only whitespace of the model's alphabet is the space)
RECURSIVE TrimStart(_)
TrimStart(s) ==
  IF s # << >> /\ Head(s) = " " THEN TrimStart(Tail(s)) ELSE s

RECURSIVE TrimEnd(_)
TrimEnd(s) ==
  IF s # << >> /\ s[Len(s)] = " " THEN TrimEnd(SubSeq(s, 1, Len(s) - 1)) ELSE s

Trim(s) == TrimEnd(TrimStart(s))

\* [String]::join(sep)
RECURSIVE Join(_, _)
Join(parts, sep) ==
  IF parts = << >> THEN << >>
  ELSE IF Len(parts) = 1 THEN parts[1]
  ELSE parts[1] \o sep \o Join(Tail(parts), sep)

\* Iterator::map over a sequence
MapSeq(Op(_), s) == [i \in 1..Len(s) |-> Op(s[i])]

(***************************************************************************)
(* FilterOperator and LogicalOperator.                                     *)
(***************************************************************************)
FilterOperators ==
  { "Equal", "NotEqual", "GreaterThan", "GreaterThanOrEqual", "LessThan",
    "LessThanOrEqual", "Like", "NotLike", "In", "NotIn", "IsNull",
    "IsNotNull", "StartsWith", "EndsWith", "ArrayContains", "ArrayHas",
    "ArrayAll", "ArrayAny", "DateEqual", "DateRange", "RelativeDate" }

ComparisonOperators ==
  { "Equal", "NotEqual", "GreaterThan", "GreaterThanOrEqual", "LessThan",
    "LessThanOrEqual" }

\* FilterOperator::as_sql
FilterOperator_as_sql(op) ==
  CASE op = "Equal" -> << "=" >>
    [] op = "NotEqual" -> << "!", "=" >>
    [] op = "GreaterThan" -> << ">" >>
    [] op = "GreaterThanOrEqual" -> << ">", "=" >>
    [] op = "LessThan" -> << "<" >>
    [] op = "LessThanOrEqual" -> << "<", "=" >>
    [] op = "Like" -> << "L", "I", "K", "E" >>
    [] op = "NotLike" -> << "N", "O", "T", " ", "L", "I", "K", "E" >>
    [] op = "In" -> << "I", "N" >>
    [] op = "NotIn" -> << "N", "O", "T", " ", "I", "N" >>
    [] op = "IsNull" -> << "I", "S", " ", "N", "U", "L", "L" >>
    [] op = "IsNotNull" ->
         << "I", "S", " ", "N", "O", "T", " ", "N", "U", "L", "L" >>
    [] op = "StartsWith" -> << "L", "I", "K", "E" >>
    [] op = "EndsWith" -> << "L", "I", "K", "E" >>
    [] op = "ArrayContains" -> << "h", "a", "s", "A", "l", "l" >>
    [] op = "ArrayHas" -> << "h", "a", "s" >>
    [] op = "ArrayAll" -> << "A", "L", "L" >>
    [] op = "ArrayAny" -> << "A", "N", "Y" >>
    [] op = "DateEqual" -> << "=" >>
    [] op = "DateRange" -> << "B", "E", "T", "W", "E", "E", "N" >>
    [] op = "RelativeDate" -> << ">" >>

\* LogicalOperator::as_sql
LogicalOperator_as_sql(op) ==
  IF op = "And" THEN << "A", "N", "D" >> ELSE << "O", "R" >>

IsNullSql == << " ", "I", "S", " ", "N", "U", "L", "L" >>

\* the IS NOT NULL text with the NOT lost
IsNotNullSqlWithoutNot == << " ", "I", "S", " ", "N", "U", "L", "L" >>

IsNotNullSql == << " ", "I", "S", " ", "N", "O", "T", " ", "N", "U", "L", "L" >>

(***************************************************************************)
(* FilterCondition: tuples that start with the variant's name.            *)
(*   typed leaf : << type, column, operator, value >>   value an Option    *)
(*   DateRange  : << type, column, range_type >>                           *)
(*   InValues   : << type, column, operator, values, column_type >>        *)
(*   ArrayContains / ArrayHas : << type, column, operator, value >>        *)
(*                              (value a string)                           *)
(*   JSONValue  : << type, column, operator, value, path >>                *)
(* Integer values are integers.  A float value is a normalised decimal    *)
(* [neg, ip, fp]: sign, integer digits without leading zeros, fraction    *)
(* digits without trailing zeros; these are the floats whose shortest     *)
(* round-trip Display form is that decimal.                               *)
(***************************************************************************)
TypeOf(c) == c[1]

ColumnOf(c) == c[2]

OperatorOf(c) == c[3]

ValueOf(c) == c[4]

ValuesOf(c) == c[4]

PathOf(c) == c[5]

ColumnTypeOf(c) == c[5]

RangeTypeOf(c) == c[3]

StringTypes == { "StringValue", "FixedStringValue" }

IntegerTypes ==
  { "UInt8Value", "UInt16Value", "UInt32Value", "UInt64Value",
    "Int8Value", "Int16Value", "Int32Value", "Int64Value" }

FloatTypes == { "Float32Value", "Float64Value" }

DateTimeTypes == { "DateValue", "DateTimeValue", "DateTime64Value" }

\* "<column> <op>"
ColOp(column, operator) == column \o SP \o FilterOperator_as_sql(operator)

\* "<column> <op> <text>"
ColOpText(column, operator, text) == ColOp(column, operator) \o SP \o text

\* "'<text>'"
Quoted(text) == Q \o text \o Q

\* the case-folding wrapper left out (a plausible slip)
NotLowered(text) == text

\* "lower(<text>)"
Lowered(text) == LowerP \o text \o RP

\* FilterCondition::to_sql, StringValue | FixedStringValue arm
StringToSql(c, case_insensitive) ==
  LET column == ColumnOf(c)
      operator == OperatorOf(c)
      value == ValueOf(c)
      splitv == MapSeq(Trim, Split(value[1]))
      QuoteEsc(val) == Quoted(escape_string(val))
      LowerQuoteEsc(val) == Lowered(Quoted(escape_string(val)))
  IN
  CASE operator \in { "Equal", "NotEqual", "Like", "NotLike" } ->
         IF IsSome(value)
         THEN IF case_insensitive
              THEN Ok(Lowered(column) \o SP \o FilterOperator_as_sql(operator)
                      \o SP \o Lowered(Quoted(escape_string(value[1]))))
              ELSE Ok(ColOpText(column, operator,
                                Quoted(escape_string(value[1]))))
         ELSE Ok(ColOp(column, operator))
    [] operator = "StartsWith" ->
         IF IsSome(value)
         THEN IF case_insensitive
              THEN Ok(Lowered(column) \o << " ", "L", "I", "K", "E", " " >>
                      \o Lowered(Quoted(escape_string(value[1]) \o << "%" >>)))
              ELSE Ok(column \o << " ", "L", "I", "K", "E", " " >>
                      \o Quoted(escape_string(value[1]) \o << "%" >>))
         ELSE Ok(column \o << " ", "L", "I", "K", "E", " ", "'", "%", "'" >>)
    [] operator = "EndsWith" ->
         IF IsSome(value)
         THEN IF case_insensitive
              THEN Ok(Lowered(column) \o << " ", "L", "I", "K", "E", " " >>
                      \o Lowered(Quoted(<< "%" >> \o escape_string(value[1]))))
              ELSE Ok(column \o << " ", "L", "I", "K", "E", " " >>
                      \o Quoted(<< "%" >> \o escape_string(value[1])))
         ELSE Ok(column \o << " ", "L", "I", "K", "E", " ", "'", "%", "'" >>)
    [] operator \in { "In", "NotIn" } ->
         IF IsSome(value)
         THEN IF case_insensitive
              THEN Ok(Lowered(column) \o SP \o FilterOperator_as_sql(operator)
                      \o SP \o LP
                      \o Join(MapSeq(LowerQuoteEsc, splitv), CommaSp) \o RP)
              ELSE Ok(column \o SP \o FilterOperator_as_sql(operator)
                      \o SP \o LP
                      \o Join(MapSeq(QuoteEsc, splitv), CommaSp) \o RP)
         ELSE IF operator = "In"
              THEN Err("IN operator requires values")
              ELSE Err("NOT IN operator requires values")
    [] operator = "IsNull" -> Ok(column \o IsNullSql)
    [] operator = "IsNotNull" -> Ok(column \o IsNotNullSql)
    [] OTHER -> Err("Unsupported operator for string type")

\* FilterCondition::to_sql, integer arm (all eight widths)
IntegerToSql(c) ==
  LET column == ColumnOf(c)
      operator == OperatorOf(c)
      value_str == IF IsSome(ValueOf(c)) THEN Some(IntToStr(ValueOf(c)[1])) ELSE None
  IN
  CASE operator \in ComparisonOperators ->
         IF IsSome(value_str)
         THEN Ok(ColOpText(column, operator, value_str[1]))
         ELSE Ok(ColOp(column, operator))
    [] operator \in { "In", "NotIn" } ->
         IF IsSome(value_str)
         THEN Ok(column \o SP \o FilterOperator_as_sql(operator) \o SP \o LP
                 \o Join(MapSeq(Trim, Split(value_str[1])), CommaSp) \o RP)
         ELSE IF operator = "In"
              THEN Err("IN operator requires values")
              ELSE Err("NOT IN operator requires values")
    [] operator = "IsNull" -> Ok(column \o IsNullSql)
    [] operator = "IsNotNull" -> Ok(column \o IsNotNullSql)
    [] OTHER -> Err("Unsupported operator for integer type")

\* f64::to_string / f32::to_string of a normalised decimal
FloatToStr(v) ==
  (IF v.neg THEN << "-" >> ELSE << >>) \o v.ip
  \o (IF v.fp = << >> THEN << >> ELSE << "." >> \o v.fp)

\* FilterCondition::to_sql, float arm
FloatToSql(c) ==
  LET column == ColumnOf(c)
      operator == OperatorOf(c)
      value_str == IF IsSome(ValueOf(c)) THEN Some(FloatToStr(ValueOf(c)[1])) ELSE None
  IN
  CASE operator \in ComparisonOperators ->
         IF IsSome(value_str)
         THEN Ok(ColOpText(column, operator, value_str[1]))
         ELSE Ok(ColOp(column, operator))
    [] operator = "IsNull" -> Ok(column \o IsNullSql)
    [] operator = "IsNotNull" -> Ok(column \o IsNotNullSql)
    [] OTHER -> Err("Unsupported operator for float type")

\* FilterCondition::to_sql, DateValue | DateTimeValue | DateTime64Value arm
DateTimeToSql(c) ==
  LET column == ColumnOf(c)
      operator == OperatorOf(c)
      value_str == ValueOf(c)
  IN
  CASE operator \in ComparisonOperators ->
         IF IsSome(value_str)
         THEN Ok(ColOpText(column, operator, Quoted(value_str[1])))
         ELSE Ok(ColOp(column, operator))
    [] operator = "IsNull" -> Ok(column \o IsNullSql)
    [] operator = "IsNotNull" -> Ok(column \o IsNotNullSql)
    [] OTHER -> Err("Unsupported operator for date/time type")

ToDateP == << "t", "o", "D", "a", "t", "e", "(" >>

\* FilterCondition::to_sql, DateRange arm
DateRangeToSql(c) ==
  LET column == ColumnOf(c)
      range_type == RangeTypeOf(c)
  IN
  CASE range_type.kind = "Exact" ->
         Ok(column \o << " ", "=", " " >> \o Quoted(range_type.start))
    [] range_type.kind = "DateOnly" ->
         Ok(ToDateP \o column \o RP \o << " ", "=", " " >>
            \o ToDateP \o Quoted(range_type.start) \o RP)
    [] range_type.kind = "Range" ->
         Ok(column \o << " ", "B", "E", "T", "W", "E", "E", "N", " " >>
            \o Quoted(range_type.start) \o << " ", "A", "N", "D", " " >>
            \o Quoted(range_type.end))
    [] range_type.kind = "Relative" ->
         Ok(column \o << " ", ">", " " >> \o range_type.start)

\* FilterCondition::to_sql, BooleanValue arm
BooleanToSql(c) ==
  LET column == ColumnOf(c)
      operator == OperatorOf(c)
      value == ValueOf(c)
  IN
  CASE operator \in { "Equal", "NotEqual" } ->
         IF IsSome(value)
         THEN Ok(ColOpText(column, operator,
                           IF value[1] THEN << "1" >> ELSE << "0" >>))
         ELSE Ok(ColOp(column, operator))
    [] operator = "IsNull" -> Ok(column \o IsNullSql)
    [] operator = "IsNotNull" -> Ok(column \o IsNotNullSql)
    [] OTHER -> Err("Unsupported operator for boolean type")

\* FilterCondition::to_sql, UUIDValue arm
UUIDToSql(c) ==
  LET column == ColumnOf(c)
      operator == OperatorOf(c)
      value == ValueOf(c)
      QuoteTrim(item) == Quoted(Trim(item))
  IN
  CASE operator \in { "Equal", "NotEqual" } ->
         IF IsSome(value)
         THEN Ok(ColOpText(column, operator, Quoted(value[1])))
         ELSE Ok(ColOp(column, operator))
    [] operator \in { "In", "NotIn" } ->
         IF IsSome(value)
         THEN Ok(column \o SP \o FilterOperator_as_sql(operator) \o SP \o LP
                 \o Join(MapSeq(QuoteTrim, Split(value[1])), CommaSp) \o RP)
         ELSE IF operator = "In"
              THEN Err("IN operator requires values")
              ELSE Err("NOT IN operator requires values")
    [] operator = "IsNull" -> Ok(column \o IsNullSql)
    [] operator = "IsNotNull" -> Ok(column \o IsNotNullSql)
    [] OTHER -> Err("Unsupported operator for UUID type")

\* FilterCondition::to_sql, ArrayContains arm
ArrayContainsToSql(c) ==
  LET QuoteTrimEsc(s) == Quoted(escape_string(Trim(s)))
  IN  Ok(<< "h", "a", "s", "A", "l", "l", "(" >> \o ColumnOf(c) \o CommaSp
         \o << "a", "r", "r", "a", "y", "[" >>
         \o Join(MapSeq(QuoteTrimEsc, Split(ValueOf(c))), CommaSp)
         \o << "]", ")" >>)

\* FilterCondition::to_sql, ArrayHas arm
ArrayHasToSql(c) ==
  Ok(<< "h", "a", "s", "(" >> \o ColumnOf(c) \o CommaSp
     \o Quoted(escape_string(ValueOf(c))) \o RP)

JSONExtractStringP ==
  << "J", "S", "O", "N", "E", "x", "t", "r", "a", "c", "t",
     "S", "t", "r", "i", "n", "g", "(" >>

\* the column reference of a JSONValue condition
JsonColumn(c) ==
  IF IsSome(PathOf(c))
  THEN JSONExtractStringP \o ColumnOf(c) \o CommaSp \o Quoted(PathOf(c)[1]) \o RP
  ELSE ColumnOf(c)

\* FilterCondition::to_sql, JSONValue arm
JSONToSql(c, case_insensitive) ==
  LET json_column == JsonColumn(c)
      operator == OperatorOf(c)
      value == ValueOf(c)
  IN
  CASE operator \in { "Equal", "NotEqual" } ->
         IF IsSome(value)
         THEN IF case_insensitive
              THEN Ok(Lowered(json_column) \o SP
                      \o FilterOperator_as_sql(operator) \o SP
                      \o Lowered(Quoted(escape_string(value[1]))))
              ELSE Ok(ColOpText(json_column, operator,
                                Quoted(escape_string(value[1]))))
         ELSE Ok(ColOp(json_column, operator))
    [] operator = "IsNull" -> Ok(json_column \o IsNullSql)
    [] operator = "IsNotNull" -> Ok(json_column \o IsNotNullSql)
    [] OTHER -> Err("Unsupported operator for JSON type")

\* str::parse::<f64>().is_ok() on the model's alphabet: an optional sign,
\* then digits with at most one '.', at least one digit.  (The alphabet has
\* no letters that could spell an exponent, "inf" or "nan".)
ParsesAsF64(s) ==
  LET body == IF s # << >> /\ Head(s) \in { "+", "-" } THEN Tail(s) ELSE s
      isDigit(ch) == \E i \in 1..10 : Digits[i] = ch
  IN  /\ \E i \in 1..Len(body) : isDigit(body[i])
      /\ \A i \in 1..Len(body) : isDigit(body[i]) \/ body[i] = "."
      /\ Cardinality({ i \in 1..Len(body) : body[i] = "." }) <= 1

\* FilterCondition::to_sql, InValues arm
InValuesToSql(c, case_insensitive) ==
  LET column == ColumnOf(c)
      operator == OperatorOf(c)
      is_text == ColumnTypeOf(c) = Some("String")
      TextValue(v) == IF case_insensitive
                      THEN Lowered(Quoted(escape_string(v)))
                      ELSE Quoted(escape_string(v))
      OtherValue(v) == IF ParsesAsF64(v) THEN v ELSE Quoted(escape_string(v))
      formatted_values ==
        IF is_text THEN Join(MapSeq(TextValue, ValuesOf(c)), CommaSp)
        ELSE Join(MapSeq(OtherValue, ValuesOf(c)), CommaSp)
      column_name == IF case_insensitive /\ is_text THEN Lowered(column)
                     ELSE column
  IN
  IF operator \in { "In", "NotIn" }
  THEN Ok(column_name \o SP \o FilterOperator_as_sql(operator) \o SP \o LP
          \o formatted_values \o RP)
  ELSE Err("Invalid operator for InValues condition")

\* FilterCondition::to_sql
FilterCondition_to_sql(c, case_insensitive) ==
  CASE TypeOf(c) \in StringTypes -> StringToSql(c, case_insensitive)
    [] TypeOf(c) \in IntegerTypes -> IntegerToSql(c)
    [] TypeOf(c) \in FloatTypes -> FloatToSql(c)
    [] TypeOf(c) \in DateTimeTypes -> DateTimeToSql(c)
    [] TypeOf(c) = "DateRange" -> DateRangeToSql(c)
    [] TypeOf(c) = "BooleanValue" -> BooleanToSql(c)
    [] TypeOf(c) = "UUIDValue" -> UUIDToSql(c)
    [] TypeOf(c) = "ArrayContains" -> ArrayContainsToSql(c)
    [] TypeOf(c) = "ArrayHas" -> ArrayHasToSql(c)
    [] TypeOf(c) = "JSONValue" -> JSONToSql(c, case_insensitive)
    [] TypeOf(c) = "InValues" -> InValuesToSql(c, case_insensitive)

(***************************************************************************)
(* FilterExpression and its compiler.                                      *)
(***************************************************************************)
Condition(c) == [kind |-> "Condition", condition |-> c]

Group(op, exprs) == [kind |-> "Group", operator |-> op, expressions |-> exprs]

\* the join keyword fixed to AND whatever the operator (a plausible slip)
SeparatorAlwaysAnd(op) == << " ", "A", "N", "D", " " >>

\* " AND " / " OR "
Separator(op) == SP \o LogicalOperator_as_sql(op) \o SP

\* collect() keeping the last Err of the children instead of the first
LastFailed(failed) == CHOOSE i \in failed : \A j \in failed : i >= j

\* Result<Vec<String>>::collect(): the iteration stops at the first Err
FirstFailed(failed) == CHOOSE i \in failed : \A j \in failed : i <= j

\* FilterExpression::to_sql
RECURSIVE FilterExpression_to_sql(_, _)
FilterExpression_to_sql(e, case_insensitive) ==
  IF e.kind = "Condition"
  THEN FilterCondition_to_sql(e.condition, case_insensitive)
  ELSE IF e.expressions = << >>
  THEN Ok(<< >>)
  ELSE LET conditions ==
             [i \in 1..Len(e.expressions) |->
                FilterExpression_to_sql(e.expressions[i], case_insensitive)]
           failed == { i \in 1..Len(conditions) : ~conditions[i].ok }
       IN  IF failed # {}
           THEN conditions[FirstFailed(failed)]
           ELSE Ok(LP \o Join([i \in 1..Len(conditions) |-> conditions[i].val],
                              Separator(e.operator))
                   \o RP)

(***************************************************************************)
(* ColumnDef and the coercion of a flat item into a FilterCondition.       *)
(***************************************************************************)
ColumnDef(kind, name) == [kind |-> kind, name |-> name]

\* the operator table of ColumnDef::to_filter_condition
OperatorSymbols ==
  << << << "=" >>, "Equal" >>,
     << << "!", "=" >>, "NotEqual" >>,
     << << ">" >>, "GreaterThan" >>,
     << << ">", "=" >>, "GreaterThanOrEqual" >>,
     << << "<" >>, "LessThan" >>,
     << << "<", "=" >>, "LessThanOrEqual" >>,
     << << "L", "I", "K", "E" >>, "Like" >>,
     << << "N", "O", "T", " ", "L", "I", "K", "E" >>, "NotLike" >>,
     << << "I", "N" >>, "In" >>,
     << << "N", "O", "T", " ", "I", "N" >>, "NotIn" >>,
     << << "I", "S", " ", "N", "U", "L", "L" >>, "IsNull" >>,
     << << "I", "S", " ", "N", "O", "T", " ", "N", "U", "L", "L" >>,
        "IsNotNull" >>,
     << << "S", "T", "A", "R", "T", "S", " ", "W", "I", "T", "H" >>,
        "StartsWith" >>,
     << << "E", "N", "D", "S", " ", "W", "I", "T", "H" >>, "EndsWith" >>,
     << << "A", "R", "R", "A", "Y", " ", "C", "O", "N", "T", "A", "I", "N",
           "S" >>, "ArrayContains" >>,
     << << "A", "R", "R", "A", "Y", " ", "H", "A", "S" >>, "ArrayHas" >>,
     << << "D", "A", "T", "E", "_", "O", "N", "L", "Y" >>, "DateEqual" >>,
     << << "D", "A", "T", "E", "_", "R", "A", "N", "G", "E" >>, "DateRange" >>,
     << << "R", "E", "L", "A", "T", "I", "V", "E" >>, "RelativeDate" >> >>

\* the operator match with a default arm in place of the Err arm
OperatorOfSymbolDefaulting(operator) ==
  LET up == ToUpper(operator)
      hits == { i \in 1..Len(OperatorSymbols) : OperatorSymbols[i][1] = up }
  IN  IF hits = {} THEN Some("Equal")
      ELSE Some(OperatorSymbols[CHOOSE i \in hits : TRUE][2])

\* the match on operator.to_uppercase() in to_filter_condition:
\* Some(op), or None for an unknown symbol
OperatorOfSymbol(operator) ==
  LET up == ToUpper(operator)
      hits == { i \in 1..Len(OperatorSymbols) : OperatorSymbols[i][1] = up }
  IN  IF hits = {} THEN None
      ELSE Some(OperatorSymbols[CHOOSE i \in hits : TRUE][2])

IsDigit(ch) == \E i \in 1..10 : Digits[i] = ch

DigitValue(ch) == (CHOOSE i \in 1..10 : Digits[i] = ch) - 1

RECURSIVE DigitsValue(_)
DigitsValue(ds) ==
  IF ds = << >> THEN 0
  ELSE 10 * DigitsValue(SubSeq(ds, 1, Len(ds) - 1)) + DigitValue(ds[Len(ds)])

RECURSIVE StripLeadingZeros(_)
StripLeadingZeros(ds) ==
  IF Len(ds) > 1 /\ Head(ds) = "0" THEN StripLeadingZeros(Tail(ds)) ELSE ds

\* the largest magnitude an integer column kind holds, as decimal digits,
\* for a negative and for a non-negative number
MaxMagnitude(kind, negative) ==
  CASE kind = "UInt8" -> << "2", "5", "5" >>
    [] kind = "UInt16" -> << "6", "5", "5", "3", "5" >>
    [] kind = "UInt32" ->
         << "4", "2", "9", "4", "9", "6", "7", "2", "9", "5" >>
    [] kind = "UInt64" ->
         << "1", "8", "4", "4", "6", "7", "4", "4", "0", "7", "3", "7", "0", "9", "5", "5", "1", "6", "1", "5" >>
    [] kind = "Int8" -> IF negative THEN << "1", "2", "8" >> ELSE << "1", "2", "7" >>
    [] kind = "Int16" -> IF negative THEN << "3", "2", "7", "6", "8" >> ELSE << "3", "2", "7", "6", "7" >>
    [] kind = "Int32" ->
         IF negative THEN << "2", "1", "4", "7", "4", "8", "3", "6", "4", "8" >>
         ELSE << "2", "1", "4", "7", "4", "8", "3", "6", "4", "7" >>
    [] kind = "Int64" ->
         IF negative
         THEN << "9", "2", "2", "3", "3", "7", "2", "0", "3", "6", "8", "5", "4", "7", "7", "5", "8", "0", "8" >>
         ELSE << "9", "2", "2", "3", "3", "7", "2", "0", "3", "6", "8", "5", "4", "7", "7", "5", "8", "0", "7" >>

\* a <= b for two digit strings without leading zeros
DigitsLeq(a, b) ==
  \/ Len(a) < Len(b)
  \/ /\ Len(a) = Len(b)
     /\ \/ a = b
        \/ \E i \in 1..Len(a) :
             /\ DigitValue(a[i]) < DigitValue(b[i])
             /\ \A j \in 1..(i - 1) : a[j] = b[j]

\* str::parse::<uN / iN>(): an optional '+' (or '-' for a signed type), then
\* one or more digits, the number within the type's range
ParseInteger(kind, value) ==
  LET signed == kind \in { "Int8", "Int16", "Int32", "Int64" }
      hasSign == value # << >>
                 /\ (Head(value) = "+" \/ (signed /\ Head(value) = "-"))
      negative == hasSign /\ Head(value) = "-"
      ds == IF hasSign THEN Tail(value) ELSE value
  IN  IF ds = << >> \/ \E i \in 1..Len(ds) : ~IsDigit(ds[i])
      THEN None
      ELSE IF ~DigitsLeq(StripLeadingZeros(ds), MaxMagnitude(kind, negative))
      THEN None
      ELSE Some(IF negative THEN 0 - DigitsValue(ds) ELSE DigitsValue(ds))

RECURSIVE StripTrailingZeros(_)
StripTrailingZeros(ds) ==
  IF ds # << >> /\ ds[Len(ds)] = "0"
  THEN StripTrailingZeros(SubSeq(ds, 1, Len(ds) - 1)) ELSE ds

\* str::parse::<f64 / f32>() on the model's alphabet, as a normalised decimal
ParseFloat(value) ==
  IF ~ParsesAsF64(value) THEN None
  ELSE LET neg == Head(value) = "-"
           body == IF Head(value) \in { "+", "-" } THEN Tail(value) ELSE value
           dots == { i \in 1..Len(body) : body[i] = "." }
           k == IF dots = {} THEN Len(body) + 1 ELSE CHOOSE i \in dots : TRUE
           ipart == SubSeq(body, 1, k - 1)
           fpart == SubSeq(body, k + 1, Len(body))
       IN  Some([neg |-> neg,
                 ip |-> IF ipart = << >> THEN << "0" >>
                        ELSE StripLeadingZeros(ipart),
                 fp |-> StripTrailingZeros(fpart)])

\* str::to_lowercase on one character
LowerChar(c) ==
  IF \E i \in 1..26 : UpperLetters[i] = c
  THEN LowerLetters[CHOOSE i \in 1..26 : UpperLetters[i] = c]
  ELSE c

\* str::to_lowercase
ToLower(s) == [i \in 1..Len(s) |-> LowerChar(s[i])]

TrueTokens == { << "t", "r", "u", "e" >>, << "1" >>, << "y", "e", "s" >>, << "y" >> }

FalseTokens == { << "f", "a", "l", "s", "e" >>, << "0" >>, << "n", "o" >>, << "n" >> }

IntegerKinds ==
  { "UInt8", "UInt16", "UInt32", "UInt64", "Int8", "Int16", "Int32", "Int64" }

DateKinds == { "Date", "Date32", "DateTime", "DateTime64" }

ArrayKinds ==
  { "ArrayString", "ArrayUInt8", "ArrayUInt16", "ArrayUInt32", "ArrayUInt64",
    "ArrayInt8", "ArrayInt16", "ArrayInt32", "ArrayInt64", "ArrayFloat32",
    "ArrayFloat64" }

ColumnKinds ==
  { "String", "FixedString", "UInt128", "UInt256", "Int128", "Int256",
    "Float32", "Float64", "Boolean", "UUID", "Enum8", "Enum16", "IPv4",
    "IPv6", "Decimal", "JSON" }
  \cup IntegerKinds \cup DateKinds \cup ArrayKinds

Typed(type, column, operator, value) == << type, column, operator, value >>

\* a JSONValue built without its value (a plausible slip)
JSONValueWithoutValue(column, operator, value, path) ==
  << "JSONValue", column, operator, None, path >>

\* FilterCondition::JSONValue
JSONValue(column, operator, value, path) ==
  << "JSONValue", column, operator, value, path >>

\* FilterCondition::InValues
InValues(column, operator, values, column_type) ==
  << "InValues", column, operator, values, column_type >>

\* FilterCondition::date_exact / date_only / date_range / relative_date
DateRangeCondition(column, kind, start, end) ==
  << "DateRange", column, [kind |-> kind, start |-> start, end |-> end] >>

\* FilterCondition::InValues as built by to_filter_condition
InValuesOf(column, operator, value, column_type) ==
  InValues(column, operator, MapSeq(Trim, Split(value)), Some(column_type))

\* ColumnDef::to_filter_condition
ColumnDef_to_filter_condition(def, operator, value) ==
  LET parsed == OperatorOfSymbol(operator)
      op == parsed[1]
      name == def.name
      kind == def.kind
      is_null_check == op \in { "IsNull", "IsNotNull" }
  IN
  IF parsed = None THEN Err("Invalid operator")
  ELSE
  CASE kind \in IntegerKinds ->
         IF is_null_check
         THEN Ok(Typed(kind \o "Value", name, op, None))
         ELSE IF op \in { "In", "NotIn" }
         THEN Ok(InValuesOf(name, op, value, "Numeric"))
         ELSE IF ParseInteger(kind, value) = None
         THEN Err("Invalid value for integer")
         ELSE Ok(Typed(kind \o "Value", name, op, ParseInteger(kind, value)))
    [] kind \in { "Float32", "Float64" } ->
         IF is_null_check
         THEN Ok(Typed(kind \o "Value", name, op, None))
         ELSE IF ParseFloat(value) = None
         THEN Err("Invalid value for float")
         ELSE Ok(Typed(kind \o "Value", name, op, ParseFloat(value)))
    [] kind \in DateKinds ->
         LET type == IF kind = "Date32" THEN "DateValue" ELSE kind \o "Value"
             parts == Split(value)
         IN  IF is_null_check THEN Ok(Typed(type, name, op, None))
             ELSE IF op = "DateEqual"
             THEN Ok(DateRangeCondition(name, "DateOnly", value, << >>))
             ELSE IF op = "DateRange"
             THEN IF Len(parts) = 2
                  THEN Ok(DateRangeCondition(name, "Range", Trim(parts[1]),
                                             Trim(parts[2])))
                  ELSE Err("DATE_RANGE requires two comma-separated values")
             ELSE IF op = "RelativeDate"
             THEN Ok(DateRangeCondition(name, "Relative", value, << >>))
             ELSE Ok(Typed(type, name, op, Some(value)))
    [] kind = "Boolean" ->
         IF is_null_check THEN Ok(Typed("BooleanValue", name, op, None))
         ELSE IF ToLower(value) \in TrueTokens
         THEN Ok(Typed("BooleanValue", name, op, Some(TRUE)))
         ELSE IF ToLower(value) \in FalseTokens
         THEN Ok(Typed("BooleanValue", name, op, Some(FALSE)))
         ELSE Err("Invalid boolean value")
    [] kind = "UUID" ->
         IF is_null_check THEN Ok(Typed("UUIDValue", name, op, None))
         ELSE IF op \in { "In", "NotIn" }
         THEN Ok(InValuesOf(name, op, value, "UUID"))
         ELSE Ok(Typed("UUIDValue", name, op, Some(value)))
    [] kind \in ArrayKinds ->
         IF op = "ArrayContains"
         THEN Ok(Typed("ArrayContains", name, op, value))
         ELSE IF op = "ArrayHas"
         THEN Ok(Typed("ArrayHas", name, op, value))
         ELSE IF is_null_check
         THEN Ok(Typed("StringValue", name, op, None))
         ELSE Err("Unsupported operator for array type")
    [] kind = "JSON" ->
         LET dots == { i \in 1..Len(value) : value[i] = "." }
             k == CHOOSE i \in dots : \A j \in dots : i <= j
             split == dots # {} /\ ~is_null_check
             json_path == IF split THEN Some(SubSeq(value, 1, k - 1)) ELSE None
             json_value == IF split THEN SubSeq(value, k + 1, Len(value))
                           ELSE value
         IN  Ok(JSONValue(name, op,
                          IF is_null_check THEN None ELSE Some(json_value),
                          json_path))
    [] kind = "Decimal" ->
         IF is_null_check THEN Ok(Typed("Float64Value", name, op, None))
         ELSE IF ParseFloat(value) = None THEN Err("Invalid decimal value")
         ELSE Ok(Typed("Float64Value", name, op, ParseFloat(value)))
    [] OTHER ->
         \* String, FixedString, Enum8/16, IPv4/6 and the fallback arm
         Ok(Typed("StringValue", name, op,
                  IF is_null_check THEN None ELSE Some(value)))

(***************************************************************************)
(* FilterBuilder.                                                          *)
(***************************************************************************)
\* add_expression combining with OR instead of AND (a plausible slip)
add_expression_or(root, expression) ==
  IF root = None THEN Some(expression)
  ELSE Some(Group("Or", << root[1], expression >>))

\* add_expression putting the new piece first (a plausible slip)
add_expression_swapped(root, expression) ==
  IF root = None THEN Some(expression)
  ELSE Some(Group("And", << expression, root[1] >>))

\* FilterBuilder::add_expression, as the new value of builder.root
add_expression(root, expression) ==
  IF root = None THEN Some(expression)
  ELSE Some(Group("And", << root[1], expression >>))

\* build without the two empty cases: ' WHERE ' is always emitted
build_always_where(root, case_insensitive) ==
  IF root = None THEN Ok(Where)
  ELSE LET sql == FilterExpression_to_sql(root[1], case_insensitive)
       IN  IF ~sql.ok THEN sql ELSE Ok(Where \o sql.val)

\* FilteringOptions::from_json_filters, given the root of the builder that
\* FilterBuilder::from_json_filters returned: None for an empty list,
\* otherwise the options holding the root, if there is one
FilteringOptions_from_json_filters(filters, root, column_defs) ==
  IF filters = << >> THEN None
  ELSE IF root = None THEN None
  ELSE Some([expressions |-> << root[1] >>, case_insensitive |-> TRUE,
             column_defs |-> column_defs])

\* FilterBuilder::build
build(root, case_insensitive) ==
  IF root = None THEN Ok(<< >>)
  ELSE LET sql == FilterExpression_to_sql(root[1], case_insensitive)
       IN  IF ~sql.ok THEN sql
           ELSE IF sql.val = << >> THEN Ok(<< >>)
           ELSE Ok(Where \o sql.val)

\* the connector match with the "OR" arm missing (a plausible slip)
ConnectorOperatorAlwaysAnd(connector) == "And"

\* the connector match without to_uppercase(): only the exact text "OR" is Or
ConnectorOperatorCaseSensitive(connector) ==
  IF connector = << "O", "R" >> THEN "Or" ELSE "And"

\* the connector match of from_json_filters: "OR" in any case is Or,
\* everything else is And
ConnectorOperator(connector) ==
  IF ToUpper(connector) = << "O", "R" >> THEN "Or" ELSE "And"

\* FilterBuilder::new().case_insensitive(value)
FilterBuilder(root, case_insensitive) ==
  [root |-> root, case_insensitive |-> case_insensitive]

\* FilterBuilder::add_condition, as the new value of builder.root
FilterBuilder_add_condition(root, condition) ==
  add_expression(root, Condition(condition))

\* group() splicing the children of an AND group into an AND root instead of
\* nesting the new group (a plausible slip)
FilterBuilder_group_flattening(root, operator, expressions) ==
  IF root = None THEN Some(Group(operator, expressions))
  ELSE IF operator = "And" /\ root[1].kind = "Group" /\ root[1].operator = "And"
  THEN Some(Group("And", root[1].expressions \o expressions))
  ELSE Some(Group("And", << root[1], Group(operator, expressions) >>))

\* FilterBuilder::group, as the new value of builder.root
FilterBuilder_group(root, operator, expressions) ==
  LET new_group == Group(operator, expressions)
  IN  IF root = None THEN Some(new_group)
      ELSE Some(Group("And", << root[1], new_group >>))

\* FilteringOptions { expressions, case_insensitive } (column_defs is not
\* read by to_filter_builder or to_sql)
FilteringOptions(expressions, case_insensitive) ==
  [expressions |-> expressions, case_insensitive |-> case_insensitive]

\* to_filter_builder appending the expressions one at a time (a plausible
\* slip): the result is a left-nested chain, not one flat group
RECURSIVE to_filter_builder_folding(_)
to_filter_builder_folding(options) ==
  IF options.expressions = << >>
  THEN FilterBuilder(None, options.case_insensitive)
  ELSE LET n == Len(options.expressions)
           before == to_filter_builder_folding(
                       [options EXCEPT !.expressions = SubSeq(@, 1, n - 1)])
       IN  FilterBuilder(add_expression(before.root, options.expressions[n]),
                         options.case_insensitive)

\* FilteringOptions::to_filter_builder (it always returns Ok)
FilteringOptions_to_filter_builder(options) ==
  IF Len(options.expressions) > 1
  THEN FilterBuilder(FilterBuilder_group(None, "And", options.expressions),
                     options.case_insensitive)
  ELSE IF options.expressions # << >>
  THEN FilterBuilder(add_expression(None, options.expressions[1]),
                     options.case_insensitive)
  ELSE FilterBuilder(None, options.case_insensitive)

\* FilteringOptions::to_sql
FilteringOptions_to_sql(options) ==
  LET builder == FilteringOptions_to_filter_builder(options)
  IN  build(builder.root, builder.case_insensitive)

(***************************************************************************)
(* Pagination.  The arguments are i64; the model draws them from small     *)
(* values, for which the f64 division and the i64 products are exact.      *)
(***************************************************************************)
\* the per_page_limit used when the given one is not positive
DefaultPerPageLimit == 10

\* the per_page used when the capped one is not positive
DefaultPerPage == 10

\* Pagination::new
Pagination_new(current_page, per_page, total_pages, total_records) ==
  [current_page |-> current_page,
   previous_page |-> IF current_page > 1 THEN current_page - 1 ELSE 1,
   next_page |-> IF current_page < total_pages /\ total_pages > 0
                 THEN current_page + 1
                 ELSE IF current_page < total_pages THEN total_pages
                 ELSE current_page,
   total_pages |-> total_pages,
   per_page |-> per_page,
   total_records |-> total_records]

\* the division without the ceil(): the partial last page is lost
FloorDiv(total_records, per_page) == total_records \div per_page

\* (total_records as f64 / per_page as f64).ceil() as i64, both positive
CeilDiv(total_records, per_page) ==
  (total_records + per_page - 1) \div per_page

\* the offset of the page after the requested one
OffsetOfNextPage(limit, current_page) == limit * current_page

\* let offset = (limit * current_page) - limit;
PageOffset(limit, current_page) == (limit * current_page) - limit

\* Paginate::new, one LET per shadowing `let` of the function
Paginate_new(current_page, per_page, per_page_limit, total_records) ==
  LET limit1 == IF per_page_limit > 0 THEN per_page_limit ELSE DefaultPerPageLimit
      per_page1 == IF per_page > limit1 THEN limit1 ELSE per_page
      per_page2 == IF per_page1 > 0 THEN per_page1 ELSE DefaultPerPage
      total_records1 == IF total_records > 0 THEN total_records ELSE 0
      total_pages == IF total_records1 > 0 THEN CeilDiv(total_records1, per_page2)
                     ELSE 0
      current_page1 == IF current_page < 1 THEN 1 ELSE current_page
      current_page2 == IF current_page1 > total_pages /\ total_pages > 0
                       THEN total_pages ELSE current_page1
      limit == per_page2
      offset == PageOffset(limit, current_page2)
  IN  [pagination |-> Pagination_new(current_page2, per_page2, total_pages,
                                     total_records1),
       sql |-> << "L", "I", "M", "I", "T", " " >> \o IntToStr(limit)
               \o << " ", "O", "F", "F", "S", "E", "T", " " >> \o IntToStr(offset)]

(***************************************************************************)
(* Inputs of the model.                                                    *)
(***************************************************************************)
ColName == << "n", "a", "m", "e" >>

ColAge == << "a", "g", "e" >>

ColZip == << "z", "i", "p" >>

\* the Column Type Registry handed to from_json_filters (column_defs)
ColumnDefs ==
  [k \in { ColName, ColAge } |->
     IF k = ColName THEN ColumnDef("String", ColName)
     ELSE ColumnDef("UInt32", ColAge)]

JsonFilter(n, f, v, c) == [n |-> n, f |-> f, v |-> v, c |-> c]

\* the (n, f, v) triples of the flat items: an integer comparison, a string
\* equality whose literal has a quote, a column missing from the registry,
\* and two items that coerce but do not render, each with its own error
\* (">" on a String column, LIKE on an integer column)
ItemPool ==
  { << ColAge, << ">" >>, << "2", "5" >> >>,
    << ColName, << "=" >>, << "o", "'", "k" >> >>,
    << ColZip, << "=" >>, << "1" >> >>,
    << ColName, << ">" >>, << "x" >> >>,
    << ColAge, << "L", "I", "K", "E" >>, << "5" >> >> }

Connectors == { None, Some(<< "A", "N", "D" >>), Some(<< "O", "R" >>) }

JsonFilters == { JsonFilter(p[1], p[2], p[3], c) : p \in ItemPool, c \in Connectors }

FilterLists == UNION { [1..n -> JsonFilters] : n \in 0..MaxFilters }

\* the characters of the literals handed to the compiler: a plain letter,
\* the quote, the list separator, a space and a digit
Alphabet == { "x", "'", ",", " ", "1" }

Literals == SeqsUpTo(Alphabet, MaxLen)

OptionalLiterals == { None } \cup { Some(l) : l \in Literals }

ShortLiterals == SeqsUpTo(Alphabet, 1)

\* the conditions handed to FilterCondition::to_sql
TextConditions ==
  { Typed(t, ColName, op, v) :
      t \in StringTypes \cup DateTimeTypes \cup { "UUIDValue" },
      op \in FilterOperators, v \in OptionalLiterals }

NumberConditions ==
  { Typed(t, ColAge, op, v) :
      t \in IntegerTypes, op \in FilterOperators, v \in { None, Some(0), Some(25) } }
  \cup { Typed(t, ColAge, op, v) :
           t \in { "Int8Value", "Int16Value", "Int32Value", "Int64Value" },
           op \in FilterOperators, v \in { Some(-7) } }
  \cup { Typed(t, ColAge, op, v) :
           t \in FloatTypes, op \in FilterOperators,
           v \in { None, Some([neg |-> FALSE, ip |-> << "9", "0" >>, fp |-> << >>]),
                   Some([neg |-> TRUE, ip |-> << "1" >>, fp |-> << "5" >>]) } }
  \cup { Typed("BooleanValue", ColAge, op, v) :
           op \in FilterOperators, v \in { None, Some(TRUE), Some(FALSE) } }

DateRangeConditions ==
  { DateRangeCondition(ColName, k, l, << >>) :
      k \in { "Exact", "DateOnly", "Relative" }, l \in Literals }
  \cup { DateRangeCondition(ColName, "Range", l, e) :
           l \in Literals, e \in ShortLiterals }

ArrayConditions ==
  { Typed(t, ColName, t, l) : t \in { "ArrayContains", "ArrayHas" }, l \in Literals }
  \cup { Typed(t, ColName, op, l) :
           t \in { "ArrayContains", "ArrayHas" }, op \in { "IsNull", "IsNotNull" },
           l \in ShortLiterals }

JSONConditions ==
  { JSONValue(ColName, op, v, p) :
      op \in FilterOperators, v \in OptionalLiterals,
      p \in { None, Some(<< "p" >>), Some(<< "'" >>) } }

InValuesConditions ==
  { InValues(ColName, op, vs, ct) :
      op \in { "In", "NotIn", "Equal" },
      vs \in { << >> } \cup { Split(l) : l \in Literals },
      ct \in { None, Some("String"), Some("Numeric"), Some("UUID") } }
  \cup { InValues(ColName, op, vs, None) :
           op \in { "IsNull", "IsNotNull" }, vs \in { << >>, << << "x" >> >> } }

Conditions ==
  TextConditions \cup NumberConditions \cup DateRangeConditions
  \cup ArrayConditions \cup JSONConditions \cup InValuesConditions

\* the leaves of the Groups handed to FilterExpression::to_sql: two that
\* render and two that do not (">" on a String column, IN without values)
LeafAge == Condition(Typed("UInt32Value", ColAge, "GreaterThan", Some(25)))

LeafName == Condition(Typed("StringValue", ColName, "Equal", Some(<< "o", "'", "k" >>)))

LeafBad == Condition(Typed("StringValue", ColName, "GreaterThan", Some(<< "x" >>)))

LeafIn == Condition(Typed("StringValue", ColName, "In", None))

\* Groups of at most MaxChildren children drawn from S, either operator
GroupsOver(S) ==
  { Group(op, cs) :
      op \in { "And", "Or" },
      cs \in UNION { [1..n -> S] : n \in 0..MaxChildren } }

Expressions ==
  { Condition(c) : c \in Conditions }
  \cup GroupsOver({ LeafAge, LeafName, LeafBad })
  \cup GroupsOver({ LeafAge, LeafName } \cup GroupsOver({ LeafAge, LeafName }))
  \cup GroupsOver({ LeafBad, LeafIn, Group("Or", << LeafAge, LeafIn >>),
                    Group("And", << LeafBad >>) })

(***************************************************************************)
(* State.                                                                  *)
(*   filters, case_insensitive : the arguments of from_json_filters        *)
(*   pc            : "loop" while the for loop runs, then "done" (Ok),     *)
(*                   "failed" (Err), "built" after build(); "render" and   *)
(*                   "rendered" in the compiler-only specification         *)
(*   idx           : number of items the loop has consumed                 *)
(*   root          : builder.root                                          *)
(*   current_group : Option<(LogicalOperator, Vec<FilterExpression>)>      *)
(*   last_connector: Option<LogicalOperator>                               *)
(*   flushes       : history of the pieces passed to add_expression,       *)
(*                   each with the reason it was flushed                   *)
(*   expression    : the tree handed to FilterExpression::to_sql           *)
(*   output        : Option<Result<String>> returned by build() / to_sql(), *)
(*                   or the Err returned by from_json_filters              *)
(*   column_defs   : the registry argument of from_json_filters            *)
(*   columns       : the argument of Sorting::new                          *)
(*   current_page, per_page, per_page_limit, total_records :               *)
(*                   the arguments of Paginate::new                        *)
(***************************************************************************)
VARIABLES filters, case_insensitive, pc, idx, root, current_group,
          last_connector, flushes, expression, output, column_defs, columns,
          current_page, per_page, per_page_limit, total_records,
          filtering_options, pagination_options, query_args,
          clickhouse_filters

\* the arguments of Paginate::new
paginate_args == << current_page, per_page, per_page_limit, total_records >>

vars == << filters, case_insensitive, pc, idx, root, current_group,
           last_connector, flushes, expression, output, column_defs, columns,
           paginate_args, filtering_options, pagination_options, query_args,
           clickhouse_filters >>

\* the FilteringOptions value, the arguments of ClickHouseFilters::new and
\* of its query methods, and the ClickHouseFilters value itself
facade_args == << filtering_options, pagination_options, query_args,
                 clickhouse_filters >>

NoFacadeArgs ==
  /\ filtering_options = << >> /\ pagination_options = << >>
  /\ query_args = << >> /\ clickhouse_filters = << >>

\* the entry points that are not being called hold no arguments
NoSortingArgs == columns = << >>

NoPaginateArgs ==
  /\ current_page = 0 /\ per_page = 0
  /\ per_page_limit = 0 /\ total_records = 0

\* the coercion of item i: column lookup, then to_filter_condition
Coerced(filter) ==
  IF filter.n \notin DOMAIN column_defs THEN Err("Column not found")
  ELSE ColumnDef_to_filter_condition(column_defs[filter.n], filter.f, filter.v)

Flush(piece, why) == [piece |-> piece, why |-> why]

Init ==
  /\ filters \in FilterLists
  /\ column_defs = ColumnDefs
  /\ NoSortingArgs /\ NoPaginateArgs
  /\ case_insensitive \in BOOLEAN
  /\ pc = "loop"
  /\ idx = 0
  /\ root = None
  /\ current_group = None
  /\ last_connector = None
  /\ flushes = << >>
  /\ expression = None
  /\ output = None
  /\ NoFacadeArgs

\* from_json_filters, `if filters.is_empty()`: early return of an empty builder
ReturnEmpty ==
  /\ pc = "loop" /\ filters = << >>
  /\ pc' = "done"
  /\ UNCHANGED << facade_args, column_defs, columns, paginate_args, filters, case_insensitive, idx, root, current_group,
                  last_connector, flushes, expression, output >>

\* loop body, `?` on the column lookup or on to_filter_condition
RejectItem ==
  /\ pc = "loop" /\ idx < Len(filters)
  /\ ~Coerced(filters[idx + 1]).ok
  /\ output' = Some(Coerced(filters[idx + 1]))
  /\ pc' = "failed"
  /\ idx' = idx + 1
  /\ UNCHANGED << facade_args, column_defs, columns, paginate_args, filters, case_insensitive, root, current_group,
                  last_connector, flushes, expression >>

\* loop body, Some(connector) with no run open: start a run
ConnectorOpensRun ==
  /\ pc = "loop" /\ idx < Len(filters)
  /\ LET filter == filters[idx + 1]
         cond == Coerced(filter)
     IN  /\ cond.ok /\ IsSome(filter.c) /\ current_group = None
         /\ LET op == ConnectorOperator(filter.c[1])
            IN  /\ current_group' =
                     Some([operator |-> op,
                           expressions |-> << Condition(cond.val) >>])
                /\ last_connector' = Some(op)
  /\ idx' = idx + 1
  /\ UNCHANGED << facade_args, column_defs, columns, paginate_args, filters, case_insensitive, pc, root, flushes, expression,
                  output >>

\* loop body, Some(connector) equal to the open run's operator: push
ConnectorExtendsRun ==
  /\ pc = "loop" /\ idx < Len(filters)
  /\ LET filter == filters[idx + 1]
         cond == Coerced(filter)
     IN  /\ cond.ok /\ IsSome(filter.c) /\ current_group # None
         /\ LET op == ConnectorOperator(filter.c[1])
                cur == current_group[1]
            IN  /\ cur.operator = op
                /\ current_group' =
                     Some([cur EXCEPT !.expressions =
                             Append(@, Condition(cond.val))])
                /\ last_connector' = Some(op)
  /\ idx' = idx + 1
  /\ UNCHANGED << facade_args, column_defs, columns, paginate_args, filters, case_insensitive, pc, root, flushes, expression,
                  output >>

\* loop body, Some(connector) different from the open run's operator:
\* the run is added to the builder as a Group and a new run starts
ConnectorSwitchesRun ==
  /\ pc = "loop" /\ idx < Len(filters)
  /\ LET filter == filters[idx + 1]
         cond == Coerced(filter)
     IN  /\ cond.ok /\ IsSome(filter.c) /\ current_group # None
         /\ LET op == ConnectorOperator(filter.c[1])
                cur == current_group[1]
                group == Group(cur.operator, cur.expressions)
            IN  /\ cur.operator # op
                /\ root' = add_expression(root, group)
                /\ flushes' = Append(flushes, Flush(group, "switch"))
                /\ current_group' =
                     Some([operator |-> op,
                           expressions |-> << Condition(cond.val) >>])
                /\ last_connector' = Some(op)
  /\ idx' = idx + 1
  /\ UNCHANGED << facade_args, column_defs, columns, paginate_args, filters, case_insensitive, pc, expression, output >>

\* a connector-less item that ends the open run: the run goes to the builder
\* and the item follows it there
PlainClosesRun ==
  /\ pc = "loop" /\ idx < Len(filters)
  /\ LET filter == filters[idx + 1]
         cond == Coerced(filter)
         group == Group(current_group[1].operator, current_group[1].expressions)
     IN  /\ cond.ok /\ filter.c = None
         /\ current_group # None /\ last_connector # None
         /\ root' = add_expression(add_expression(root, group),
                                   Condition(cond.val))
         /\ flushes' = flushes \o << Flush(group, "switch"),
                                     Flush(Condition(cond.val), "direct") >>
         /\ current_group' = None
  /\ idx' = idx + 1
  /\ UNCHANGED << facade_args, column_defs, columns, paginate_args, filters, case_insensitive, pc, last_connector,
                  expression, output >>

\* loop body, no connector while a run is open: push onto the run
PlainExtendsRun ==
  /\ pc = "loop" /\ idx < Len(filters)
  /\ LET filter == filters[idx + 1]
         cond == Coerced(filter)
     IN  /\ cond.ok /\ filter.c = None
         /\ current_group # None /\ last_connector # None
         /\ current_group' =
              Some([current_group[1] EXCEPT !.expressions =
                      Append(@, Condition(cond.val))])
  /\ idx' = idx + 1
  /\ UNCHANGED << facade_args, column_defs, columns, paginate_args, filters, case_insensitive, pc, root, last_connector,
                  flushes, expression, output >>

\* loop body, no connector and no run open: add directly to the builder
PlainDirect ==
  /\ pc = "loop" /\ idx < Len(filters)
  /\ LET filter == filters[idx + 1]
         cond == Coerced(filter)
     IN  /\ cond.ok /\ filter.c = None
         /\ ~(current_group # None /\ last_connector # None)
         /\ root' = add_expression(root, Condition(cond.val))
         /\ flushes' = Append(flushes, Flush(Condition(cond.val), "direct"))
  /\ idx' = idx + 1
  /\ UNCHANGED << facade_args, column_defs, columns, paginate_args, filters, case_insensitive, pc, current_group,
                  last_connector, expression, output >>

\* after the loop: add any remaining run, then Ok(builder)
FinalFlush ==
  /\ pc = "loop" /\ filters # << >> /\ idx = Len(filters)
  /\ IF current_group # None /\ Len(current_group[1].expressions) > 1
     THEN LET group == Group(current_group[1].operator,
                             current_group[1].expressions)
          IN  /\ root' = add_expression(root, group)
              /\ flushes' = Append(flushes, Flush(group, "final"))
     ELSE IF current_group # None /\ current_group[1].expressions # << >>
     THEN LET expr == current_group[1].expressions[1]
          IN  /\ root' = add_expression(root, expr)
              /\ flushes' = Append(flushes, Flush(expr, "final"))
     ELSE UNCHANGED << root, flushes >>
  /\ current_group' = None
  /\ pc' = "done"
  /\ UNCHANGED << facade_args, column_defs, columns, paginate_args, filters, case_insensitive, idx, last_connector, expression,
                  output >>

\* FilterBuilder::build on the returned builder
Build ==
  /\ pc = "done"
  /\ output' = Some(build(root, case_insensitive))
  /\ pc' = "built"
  /\ UNCHANGED << facade_args, column_defs, columns, paginate_args, filters, case_insensitive, idx, root, current_group,
                  last_connector, flushes, expression >>

Next ==
  \/ ReturnEmpty
  \/ RejectItem
  \/ ConnectorOpensRun
  \/ ConnectorExtendsRun
  \/ ConnectorSwitchesRun
  \/ PlainExtendsRun
  \/ PlainDirect
  \/ FinalFlush
  \/ Build

Spec == Init /\ [][Next]_vars

(***************************************************************************)
(* The compiler alone: a tree is drawn and FilterExpression::to_sql is    *)
(* applied to it (a Condition node delegates to FilterCondition::to_sql). *)
(***************************************************************************)
InitRender ==
  /\ expression \in { Some(e) : e \in Expressions }
  /\ case_insensitive \in BOOLEAN
  /\ pc = "render"
  /\ filters = << >>
  /\ column_defs = ColumnDefs
  /\ NoSortingArgs /\ NoPaginateArgs
  /\ idx = 0
  /\ root = None
  /\ current_group = None
  /\ last_connector = None
  /\ flushes = << >>
  /\ output = None
  /\ NoFacadeArgs

\* FilterExpression::to_sql(&expression, case_insensitive)
ToSql ==
  /\ pc = "render"
  /\ output' = Some(FilterExpression_to_sql(expression[1], case_insensitive))
  /\ pc' = "rendered"
  /\ UNCHANGED << facade_args, column_defs, columns, paginate_args, filters, case_insensitive, idx, root, current_group,
                  last_connector, flushes, expression >>

NextRender == ToSql

SpecRender == InitRender /\ [][NextRender]_vars

(***************************************************************************)
(* Both entry points side by side: a caller either hands a flat list to    *)
(* from_json_filters and builds, or hands a tree to to_sql.                *)
(***************************************************************************)
InitAll == Init \/ InitRender

NextAll == Next \/ NextRender

SpecAll == InitAll /\ [][NextAll]_vars

(***************************************************************************)
(* The two operator-symbol entry points and the coercion of one item,      *)
(* over every column kind.                                                 *)
(***************************************************************************)
\* the match arms of parse_operator, in source order
ParseOperatorSymbols ==
  << << << "L", "I", "K", "E" >>, "Like" >>,
     << << "=" >>, "Equal" >>,
     << << "!", "=" >>, "NotEqual" >>,
     << << ">" >>, "GreaterThan" >>,
     << << ">", "=" >>, "GreaterThanOrEqual" >>,
     << << "<" >>, "LessThan" >>,
     << << "<", "=" >>, "LessThanOrEqual" >>,
     << << "I", "N" >>, "In" >>,
     << << "N", "O", "T", " ", "I", "N" >>, "NotIn" >>,
     << << "I", "S", " ", "N", "U", "L", "L" >>, "IsNull" >>,
     << << "I", "S", " ", "N", "O", "T", " ", "N", "U", "L", "L" >>,
        "IsNotNull" >>,
     << << "S", "T", "A", "R", "T", "S", " ", "W", "I", "T", "H" >>,
        "StartsWith" >>,
     << << "E", "N", "D", "S", " ", "W", "I", "T", "H" >>,
        "EndsWith" >>,
     << << "A", "R", "R", "A", "Y", " ", "C", "O", "N", "T", "A", "I", "N", "S" >>,
        "ArrayContains" >>,
     << << "A", "R", "R", "A", "Y", " ", "H", "A", "S" >>,
        "ArrayHas" >>,
     << << "D", "A", "T", "E", "_", "O", "N", "L", "Y" >>,
        "DateEqual" >>,
     << << "D", "A", "T", "E", "_", "R", "A", "N", "G", "E" >>,
        "DateRange" >>,
     << << "R", "E", "L", "A", "T", "I", "V", "E" >>, "RelativeDate" >> >>

\* parse_operator
parse_operator(op) ==
  LET up == ToUpper(op)
      hits == { i \in 1..Len(ParseOperatorSymbols) : ParseOperatorSymbols[i][1] = up }
  IN  IF hits = {} THEN "Equal"
      ELSE ParseOperatorSymbols[CHOOSE i \in hits : \A j \in hits : i <= j][2]

\* operator symbols handed to the two entry points: every symbol of the
\* table, some in lower or mixed case, and some outside the table
SymbolPool ==
  { OperatorSymbols[i][1] : i \in 1..Len(OperatorSymbols) }
  \cup { << "=", "=" >>,
         << "<", ">" >>,
         << "B", "E", "T", "W", "E", "E", "N" >>,
         << >>,
         << "l", "i", "k", "e" >>,
         << "i", "n" >>,
         << "I", "s", " ", "N", "u", "l", "l" >>,
         << "d", "a", "t", "e", "_", "r", "a", "n", "g", "e" >> }

\* the literals of the items
ValuePool ==
  { << "2", "5" >>,
    << "x" >>,
    << >>,
    << "-", "1" >>,
    << "1", ".", "5" >>,
    << "y", "e", "s" >>,
    << "T", "R", "U", "E" >>,
    << "0" >>,
    << "a", ",", "b" >>,
    << "a", ",", "b", ",", "c" >>,
    << "2", "5", "6" >>,
    << "1", ",", "x" >>,
    << "p", ".", "v" >>,
    << "m", "a", "y", "b", "e" >> }

\* a registry with the one column "name", of any kind
Registries == { [k \in { ColName } |-> ColumnDef(kind, ColName)] : kind \in ColumnKinds }

\* one item, on the registered column or on a column the registry lacks,
\* handed either to from_json_filters (and then build) or, for its
\* operator symbol, to parse_operator
InitCoerce ==
  /\ column_defs \in Registries
  /\ filters \in { << JsonFilter(n, f, v, None) >> :
                     n \in { ColName, ColZip }, f \in SymbolPool, v \in ValuePool }
  /\ case_insensitive = TRUE
  /\ pc \in { "loop", "parse" }
  /\ idx = 0
  /\ root = None
  /\ current_group = None
  /\ last_connector = None
  /\ flushes = << >>
  /\ expression = None
  /\ output = None
  /\ NoFacadeArgs
  /\ NoSortingArgs /\ NoPaginateArgs

\* parse_operator(&filter.f)
ParseOperator ==
  /\ pc = "parse"
  /\ output' = Some(parse_operator(filters[1].f))
  /\ pc' = "parsed"
  /\ UNCHANGED << facade_args, column_defs, columns, paginate_args, filters, case_insensitive,
                  idx, root, current_group, last_connector, flushes,
                  expression >>

NextCoerce ==
  \/ ParseOperator
  \/ RejectItem
  \/ PlainDirect
  \/ FinalFlush
  \/ Build

SpecCoerce == InitCoerce /\ [][NextCoerce]_vars

(***************************************************************************)
(* from_json_filters over connector texts of every shape: both operators   *)
(* in upper, lower and mixed case, the empty text, padded text and words   *)
(* that name no operator.                                                  *)
(***************************************************************************)
ConnectorTexts ==
  { << "A", "N", "D" >>, << "a", "n", "d" >>, << "A", "n", "d" >>,
    << "O", "R" >>, << "o", "r" >>, << "O", "r" >>, << "o", "R" >>,
    << >>, << " ", "O", "R" >>, << "X", "O", "R" >>, << "N", "O", "T" >>,
    << "0", "R" >> }

\* an item that coerces and one whose column is not registered
ConnectorItems ==
  { << ColAge, << ">" >>, << "2", "5" >> >>,
    << ColZip, << "=" >>, << "1" >> >> }

ConnectorFilters ==
  { JsonFilter(p[1], p[2], p[3], c) :
      p \in ConnectorItems, c \in { None } \cup { Some(t) : t \in ConnectorTexts } }

InitConnector ==
  /\ filters \in UNION { [1..n -> ConnectorFilters] : n \in 0..MaxConnectorFilters }
  /\ column_defs = ColumnDefs
  /\ NoSortingArgs /\ NoPaginateArgs
  /\ case_insensitive = TRUE
  /\ pc = "loop"
  /\ idx = 0
  /\ root = None
  /\ current_group = None
  /\ last_connector = None
  /\ flushes = << >>
  /\ expression = None
  /\ output = None
  /\ NoFacadeArgs

SpecConnector == InitConnector /\ [][Next]_vars

(***************************************************************************)
(* Sorting.                                                                *)
(***************************************************************************)
\* the characters of column names in byte order (digits, upper case, '_',
\* lower case), by which String::cmp compares
ByteOrder == Digits \o UpperLetters \o << "_" >> \o LowerLetters

ByteRank(ch) == CHOOSE i \in 1..Len(ByteOrder) : ByteOrder[i] = ch

\* String::cmp(a, b) = Less or Equal: lexicographic in bytes, a prefix first
RECURSIVE StringLeq(_, _)
StringLeq(a, b) ==
  IF a = << >> THEN TRUE
  ELSE IF b = << >> THEN FALSE
  ELSE IF Head(a) = Head(b) THEN StringLeq(Tail(a), Tail(b))
  ELSE ByteRank(Head(a)) < ByteRank(Head(b))

\* SortedColumn::new: "asc" / "desc" in any case, anything else is Asc
SortedColumn_new(column, order) ==
  [column |-> column,
   order |-> IF ToLower(order) = << "d", "e", "s", "c" >> THEN "Desc" ELSE "Asc"]

\* a sort that is not stable: an element goes before its equals
InsertBeforeEquals(sorted, x) ==
  LET k == Cardinality({ i \in 1..Len(sorted) :
                           StringLeq(sorted[i].column, x.column)
                           /\ sorted[i].column # x.column })
  IN  SubSeq(sorted, 1, k) \o << x >> \o SubSeq(sorted, k + 1, Len(sorted))

\* one step of the stable sort_by: x goes after every element not greater
InsertSorted(sorted, x) ==
  LET k == Cardinality({ i \in 1..Len(sorted) :
                           StringLeq(sorted[i].column, x.column) })
  IN  SubSeq(sorted, 1, k) \o << x >> \o SubSeq(sorted, k + 1, Len(sorted))

\* columns.sort_by(|a, b| a.column.cmp(&b.column)), a stable sort
RECURSIVE SortByColumn(_)
SortByColumn(cs) ==
  IF cs = << >> THEN << >>
  ELSE InsertSorted(SortByColumn(SubSeq(cs, 1, Len(cs) - 1)), cs[Len(cs)])

\* columns.dedup_by(|a, b| a.column == b.column): of consecutive elements
\* with the same name the first stays
RECURSIVE DedupByColumn(_)
DedupByColumn(cs) ==
  IF Len(cs) <= 1 THEN cs
  ELSE LET init == DedupByColumn(SubSeq(cs, 1, Len(cs) - 1))
           last == cs[Len(cs)]
       IN  IF init[Len(init)].column = last.column THEN init
           ELSE Append(init, last)

OrderBy == << " ", "O", "R", "D", "E", "R", " ", "B", "Y", " " >>

\* the text pushed for one column
ColumnOrderSql(c) ==
  c.column \o (IF c.order = "Asc" THEN << " ", "A", "S", "C" >>
               ELSE << " ", "D", "E", "S", "C" >>)

\* Sorting::new
Sorting_new(cs) ==
  LET sorted == DedupByColumn(SortByColumn(cs))
  IN  [columns |-> sorted,
       sql |-> IF sorted = << >> THEN << >>
               ELSE OrderBy \o Join(MapSeq(ColumnOrderSql, sorted), CommaSp)]

\* the column names and order words handed to SortedColumn::new
SortNames == { << "a" >>, << "b" >>, << "B" >>, << "a", "b" >> }

SortOrders == { << "a", "s", "c" >>, << "D", "E", "S", "C" >>, << "x" >> }

SortedColumns == { SortedColumn_new(n, o) : n \in SortNames, o \in SortOrders }

InitSorting ==
  /\ columns \in UNION { [1..n -> SortedColumns] : n \in 0..MaxColumns }
  /\ pc = "sort"
  /\ filters = << >>
  /\ column_defs = ColumnDefs
  /\ case_insensitive = TRUE
  /\ idx = 0
  /\ root = None
  /\ current_group = None
  /\ last_connector = None
  /\ flushes = << >>
  /\ expression = None
  /\ output = None
  /\ NoFacadeArgs
  /\ NoPaginateArgs

\* Sorting::new(columns)
SortingNew ==
  /\ pc = "sort"
  /\ output' = Some(Sorting_new(columns))
  /\ pc' = "sorted"
  /\ UNCHANGED << facade_args, column_defs, columns, paginate_args, filters, case_insensitive,
                  idx, root, current_group, last_connector, flushes,
                  expression >>

NextSorting == SortingNew

SpecSorting == InitSorting /\ [][NextSorting]_vars

(***************************************************************************)
(* Paginate::new on its own.                                               *)
(***************************************************************************)
CurrentPages == { -1, 0, 1, 2, 3, 7, 101 }

PerPages == { -5, 0, 3, 10, 20 }

PerPageLimits == { -1, 0, 5, 10, 15 }

TotalRecords == { -3, 0, 1, 9, 10, 11, 25, 1000 }

InitPaginate ==
  /\ current_page \in CurrentPages
  /\ per_page \in PerPages
  /\ per_page_limit \in PerPageLimits
  /\ total_records \in TotalRecords
  /\ pc = "paginate"
  /\ filters = << >>
  /\ column_defs = ColumnDefs
  /\ case_insensitive = TRUE
  /\ idx = 0
  /\ root = None
  /\ current_group = None
  /\ last_connector = None
  /\ flushes = << >>
  /\ expression = None
  /\ output = None
  /\ NoFacadeArgs
  /\ NoSortingArgs

\* Paginate::new(current_page, per_page, per_page_limit, total_records)
PaginateNew ==
  /\ pc = "paginate"
  /\ output' = Some(Paginate_new(current_page, per_page, per_page_limit,
                                 total_records))
  /\ pc' = "paginated"
  /\ UNCHANGED << facade_args, column_defs, columns, paginate_args, filters, case_insensitive,
                  idx, root, current_group, last_connector, flushes,
                  expression >>

NextPaginate == PaginateNew

SpecPaginate == InitPaginate /\ [][NextPaginate]_vars

(***************************************************************************)
(* The FilterBuilder on its own: a caller appends pieces with              *)
(* add_condition, add_expression and group, and may set the flag with      *)
(* case_insensitive(value).  flushes records the appended pieces in order. *)
(***************************************************************************)
BuilderConditions == { LeafAge.condition, LeafName.condition }

BuilderExpressions ==
  { LeafAge, Group("Or", << LeafAge, LeafName >>),
    Group("And", << LeafName, LeafAge >>), Group("And", << >>) }

BuilderGroupChildren ==
  UNION { [1..n -> { LeafAge, LeafName }] : n \in 0..MaxChildren }

InitBuilder ==
  /\ pc = "builder"
  /\ root = None
  /\ case_insensitive = FALSE
  /\ idx = 0
  /\ flushes = << >>
  /\ filters = << >>
  /\ column_defs = ColumnDefs
  /\ current_group = None
  /\ last_connector = None
  /\ expression = None
  /\ output = None
  /\ NoFacadeArgs
  /\ NoSortingArgs /\ NoPaginateArgs

\* builder.case_insensitive(value)
SetCaseInsensitive ==
  /\ pc = "builder"
  /\ \E value \in BOOLEAN : case_insensitive' = value
  /\ UNCHANGED << facade_args, column_defs, columns, paginate_args, filters, pc, idx, root,
                  current_group, last_connector, flushes, expression, output >>

\* builder.add_condition(condition)
AddCondition ==
  /\ pc = "builder" /\ idx < MaxAppends
  /\ \E condition \in BuilderConditions :
       /\ root' = FilterBuilder_add_condition(root, condition)
       /\ flushes' = Append(flushes, Flush(Condition(condition), "add_condition"))
  /\ idx' = idx + 1
  /\ UNCHANGED << facade_args, column_defs, columns, paginate_args, filters, case_insensitive, pc,
                  current_group, last_connector, expression, output >>

\* builder.add_expression(expression)
AddExpression ==
  /\ pc = "builder" /\ idx < MaxAppends
  /\ \E e \in BuilderExpressions :
       /\ root' = add_expression(root, e)
       /\ flushes' = Append(flushes, Flush(e, "add_expression"))
  /\ idx' = idx + 1
  /\ UNCHANGED << facade_args, column_defs, columns, paginate_args, filters, case_insensitive, pc,
                  current_group, last_connector, expression, output >>

\* builder.group(operator, expressions)
AddGroup ==
  /\ pc = "builder" /\ idx < MaxAppends
  /\ \E operator \in { "And", "Or" }, expressions \in BuilderGroupChildren :
       /\ root' = FilterBuilder_group(root, operator, expressions)
       /\ flushes' = Append(flushes, Flush(Group(operator, expressions), "group"))
  /\ idx' = idx + 1
  /\ UNCHANGED << facade_args, column_defs, columns, paginate_args, filters, case_insensitive, pc,
                  current_group, last_connector, expression, output >>

NextBuilder ==
  \/ SetCaseInsensitive
  \/ AddCondition
  \/ AddExpression
  \/ AddGroup

SpecBuilder == InitBuilder /\ [][NextBuilder]_vars

(***************************************************************************)
(* FilteringOptions::to_sql on its own: a caller hands a list of           *)
(* expressions to FilteringOptions::new or ::case_sensitive and renders.   *)
(***************************************************************************)
\* two leaves, a leaf that does not render, a group and the empty group
OptionExpressions ==
  { LeafAge, LeafName, LeafBad, Group("Or", << LeafAge, LeafName >>),
    Group("And", << >>) }

InitOptions ==
  /\ filtering_options \in
       { Some(FilteringOptions(es, ci)) :
           es \in UNION { [1..n -> OptionExpressions] : n \in 0..MaxExpressions },
           ci \in BOOLEAN }
  /\ pagination_options = << >> /\ query_args = << >>
  /\ clickhouse_filters = << >>
  /\ pc = "options"
  /\ root = None
  /\ case_insensitive = TRUE
  /\ idx = 0
  /\ flushes = << >>
  /\ filters = << >>
  /\ column_defs = ColumnDefs
  /\ current_group = None
  /\ last_connector = None
  /\ expression = None
  /\ output = None
  /\ NoSortingArgs /\ NoPaginateArgs

\* filtering_options.to_sql()
OptionsToSql ==
  /\ pc = "options"
  /\ output' = Some(FilteringOptions_to_sql(filtering_options[1]))
  /\ pc' = "options_sql"
  /\ UNCHANGED << facade_args, column_defs, columns, paginate_args, filters, case_insensitive, idx,
                  root, current_group, last_connector, flushes, expression >>

NextOptions == OptionsToSql

SpecOptions == InitOptions /\ [][NextOptions]_vars

(***************************************************************************)
(* The facade: ClickHouseFilters::new over optional pagination options, a  *)
(* list of sort columns and optional filtering options, then its three     *)
(* query methods, each callable on the constructed value in any order.     *)
(***************************************************************************)
PaginationOptions(page, size, limit, total) ==
  [current_page |-> page, per_page |-> size, per_page_limit |-> limit,
   total_records |-> total]

\* ClickHouseFilters::new (to_filter_builder never fails, so neither does new)
ClickHouseFilters_new(pagination, sorting_columns, filtering) ==
  [sorting |-> IF sorting_columns = << >> THEN None
               ELSE Some(Sorting_new(sorting_columns)),
   pagination |-> IF pagination = None THEN None
                  ELSE Some(Paginate_new(pagination[1].current_page,
                                         pagination[1].per_page,
                                         pagination[1].per_page_limit,
                                         pagination[1].total_records)),
   filters |-> IF filtering = None THEN None
               ELSE Some(FilteringOptions_to_filter_builder(filtering[1]))]

\* `if let Some(filters) = &self.filters { sql.push_str(&filters.build()?) }`
WhereClause(self) ==
  IF self.filters = None THEN Ok(<< >>)
  ELSE build(self.filters[1].root, self.filters[1].case_insensitive)

\* the two pushes after the WHERE clause: sorting.sql, then ' ' and pagination.sql
SortingAndPagination(self) ==
  (IF self.sorting = None THEN << >> ELSE self.sorting[1].sql)
  \o (IF self.pagination = None THEN << >> ELSE SP \o self.pagination[1].sql)

\* ClickHouseFilters::sql
ClickHouseFilters_sql(self) ==
  LET where == WhereClause(self)
  IN  IF ~where.ok THEN where
      ELSE Ok(where.val \o SortingAndPagination(self))

SelectCountFrom ==
  << "S", "E", "L", "E", "C", "T", " ", "C", "O", "U", "N", "T", "(", "*", ")",
     " ", "F", "R", "O", "M", " " >>

\* ClickHouseFilters::count_sql
ClickHouseFilters_count_sql(self, schema, table) ==
  LET where == WhereClause(self)
  IN  IF ~where.ok THEN where
      ELSE Ok(SelectCountFrom \o schema \o << "." >> \o table \o where.val)

\* format!("SELECT {} FROM {}.{}", columns_str, schema, table)
SelectFrom(select_columns, schema, table) ==
  << "S", "E", "L", "E", "C", "T", " " >>
  \o (IF select_columns = << >> THEN << "*" >> ELSE Join(select_columns, CommaSp))
  \o << " ", "F", "R", "O", "M", " " >> \o schema \o << "." >> \o table

\* query_sql pushing the LIMIT clause before the ORDER BY clause (a
\* plausible slip)
query_sql_limit_first(self, schema, table, select_columns) ==
  LET where == WhereClause(self)
  IN  IF ~where.ok THEN where
      ELSE Ok(SelectFrom(select_columns, schema, table) \o where.val
              \o (IF self.pagination = None THEN << >>
                  ELSE SP \o self.pagination[1].sql)
              \o (IF self.sorting = None THEN << >> ELSE self.sorting[1].sql))

\* ClickHouseFilters::query_sql
ClickHouseFilters_query_sql(self, schema, table, select_columns) ==
  LET where == WhereClause(self)
  IN  IF ~where.ok THEN where
      ELSE Ok(SelectFrom(select_columns, schema, table) \o where.val
              \o SortingAndPagination(self))

\* the filtering options handed to new: none, or up to MaxChildren
\* expressions drawn from two leaves, a leaf that does not render and the
\* empty group, in either case mode
FacadeFilterings ==
  { None } \cup
  { Some(FilteringOptions(es, ci)) :
      es \in UNION { [1..n -> { LeafName, LeafAge, LeafBad, Group("And", << >>) }] :
                       n \in 0..MaxChildren },
      ci \in BOOLEAN }

FacadePaginations ==
  { None, Some(PaginationOptions(1, 10, 100, 1000)),
    Some(PaginationOptions(3, 3, 5, 25)) }

FacadeSortings ==
  { << >>,
    << SortedColumn_new(ColName, << "a", "s", "c" >>) >>,
    << SortedColumn_new(ColName, << "a", "s", "c" >>),
       SortedColumn_new(ColAge, << "d", "e", "s", "c" >>) >> }

QueryArgs ==
  { [schema |-> << "d", "b" >>, table |-> << "t" >>, columns |-> cs] :
      cs \in { << >>, << ColName >>, << ColName, ColAge >> } }

\* the results the three methods have returned so far
NoResults == [sql |-> None, count_sql |-> None, query_sql |-> None]

InitFacade ==
  /\ filtering_options \in FacadeFilterings
  /\ pagination_options \in FacadePaginations
  /\ columns \in FacadeSortings
  /\ query_args \in QueryArgs
  /\ clickhouse_filters = None
  /\ pc = "facade"
  /\ output = None
  /\ root = None
  /\ case_insensitive = TRUE
  /\ idx = 0
  /\ flushes = << >>
  /\ filters = << >>
  /\ column_defs = ColumnDefs
  /\ current_group = None
  /\ last_connector = None
  /\ expression = None
  /\ NoPaginateArgs

FacadeUnchanged ==
  UNCHANGED << filtering_options, pagination_options, query_args, column_defs,
               columns, paginate_args, filters, case_insensitive, idx, root,
               current_group, last_connector, flushes, expression >>

\* ClickHouseFilters::new(pagination, sorting_columns, filtering_options, ..)
FacadeNew ==
  /\ pc = "facade"
  /\ clickhouse_filters' =
       Some(ClickHouseFilters_new(pagination_options, columns, filtering_options))
  /\ output' = Some(NoResults)
  /\ pc' = "constructed"
  /\ FacadeUnchanged

\* filters.sql()
FacadeSql ==
  /\ pc = "constructed" /\ output[1].sql = None
  /\ output' = Some([output[1] EXCEPT
                       !.sql = Some(ClickHouseFilters_sql(clickhouse_filters[1]))])
  /\ UNCHANGED << clickhouse_filters, pc >>
  /\ FacadeUnchanged

\* filters.count_sql(schema, table)
FacadeCountSql ==
  /\ pc = "constructed" /\ output[1].count_sql = None
  /\ output' = Some([output[1] EXCEPT
                       !.count_sql =
                          Some(ClickHouseFilters_count_sql(clickhouse_filters[1],
                                                           query_args.schema,
                                                           query_args.table))])
  /\ UNCHANGED << clickhouse_filters, pc >>
  /\ FacadeUnchanged

\* filters.query_sql(schema, table, columns)
FacadeQuerySql ==
  /\ pc = "constructed" /\ output[1].query_sql = None
  /\ output' = Some([output[1] EXCEPT
                       !.query_sql =
                          Some(ClickHouseFilters_query_sql(clickhouse_filters[1],
                                                           query_args.schema,
                                                           query_args.table,
                                                           query_args.columns))])
  /\ UNCHANGED << clickhouse_filters, pc >>
  /\ FacadeUnchanged

NextFacade ==
  \/ FacadeNew
  \/ FacadeSql
  \/ FacadeCountSql
  \/ FacadeQuerySql

SpecFacade == InitFacade /\ [][NextFacade]_vars

(***************************************************************************)
(* Reading a tree back: the vocabulary of the properties below.            *)
(***************************************************************************)
\* the Condition leaves of a tree, left to right
RECURSIVE Leaves(_)
Leaves(e) ==
  IF e.kind = "Condition" THEN << e.condition >>
  ELSE IF e.expressions = << >> THEN << >>
  ELSE Leaves(Group(e.operator, SubSeq(e.expressions, 1, Len(e.expressions) - 1)))
       \o Leaves(e.expressions[Len(e.expressions)])

\* number of leaves in the first k children of a Group
LeavesBefore(e, k) == Len(Leaves(Group(e.operator, SubSeq(e.expressions, 1, k))))

\* the child of Group e that holds leaf number i
ChildHolding(e, i) ==
  CHOOSE k \in 1..Len(e.expressions) :
    LeavesBefore(e, k - 1) < i /\ i <= LeavesBefore(e, k)

\* operator of the innermost Group of e that holds both leaf i and leaf j
RECURSIVE InnermostOperator(_, _, _)
InnermostOperator(e, i, j) ==
  LET ki == ChildHolding(e, i)
      kj == ChildHolding(e, j)
      child == e.expressions[ki]
  IN  IF ki = kj /\ child.kind = "Group"
      THEN InnermostOperator(child, i - LeavesBefore(e, ki - 1),
                             j - LeavesBefore(e, ki - 1))
      ELSE e.operator

\* every node of the tree, as a set
RECURSIVE Nodes(_)
Nodes(e) ==
  IF e.kind = "Condition" THEN { e }
  ELSE { e } \cup UNION { Nodes(e.expressions[i]) : i \in 1..Len(e.expressions) }

\* the conditions coerced from the first k input items
CoercedConditions(k) == [i \in 1..k |-> Coerced(filters[i]).val]

\* from_json_filters returned Ok(builder)
Accepted == pc \in { "done", "built" }

\* a Group whose children are all Condition leaves
IsRun(e) ==
  /\ e.kind = "Group"
  /\ \A i \in 1..Len(e.expressions) : e.expressions[i].kind = "Condition"

\* the left-nested AND chain of a non-empty sequence of pieces
RECURSIVE AndChain(_)
AndChain(pieces) ==
  IF Len(pieces) = 1 THEN pieces[1]
  ELSE [kind |-> "Group", operator |-> "And",
        expressions |-> << AndChain(SubSeq(pieces, 1, Len(pieces) - 1)),
                           pieces[Len(pieces)] >>]

FlushedPieces == [k \in 1..Len(flushes) |-> flushes[k].piece]

\* text s occurs in text t at offset k (0-based)
OccursAt(s, t, k) ==
  /\ k + Len(s) <= Len(t)
  /\ \A i \in 1..Len(s) : t[k + i] = s[i]

Contains(t, s) == \E k \in 0..(Len(t) - Len(s)) : OccursAt(s, t, k)

\* t is s1 sep s2 sep ... sn, checked by position
IsJoinOf(t, parts, sep) ==
  LET Offset(k) == LET RECURSIVE Sum(_)
                       Sum(m) == IF m = 0 THEN 0
                                 ELSE Sum(m - 1) + Len(parts[m]) + Len(sep)
                   IN  Sum(k - 1)
  IN  /\ Len(parts) > 0
      /\ Len(t) = Offset(Len(parts)) + Len(parts[Len(parts)])
      /\ \A k \in 1..Len(parts) : OccursAt(parts[k], t, Offset(k))
      /\ \A k \in 1..(Len(parts) - 1) :
           OccursAt(sep, t, Offset(k) + Len(parts[k]))

(***************************************************************************)
(* Properties of the flat-filter grouper.                                  *)
(***************************************************************************)

\* the operator a connector text names, read off the text itself
NamedOperator(connector) ==
  CASE connector = << "A", "N", "D" >> -> "And"
    [] connector = << "O", "R" >> -> "Or"
    [] OTHER -> "Neither"

\* C1: the connector on item i is the operator joining item i to item i+1:
\* in every accepted result, for every adjacent pair (i, i+1) whose item i
\* carries a connector, the innermost Group holding both conditions has
\* that connector's operator.
C1_ConnectorJoinsNext ==
  (pc = "done" /\ root # None) =>
    \A i \in 1..(Len(filters) - 1) :
      IsSome(filters[i].c) =>
        InnermostOperator(root[1], i, i + 1) = NamedOperator(filters[i].c[1])

\* every item but the last carries a connector of one operator, the last none
UniformConnectors ==
  /\ Len(filters) >= 2
  /\ filters[Len(filters)].c = None
  /\ \A i \in 1..(Len(filters) - 1) :
       /\ IsSome(filters[i].c)
       /\ NamedOperator(filters[i].c[1]) \in { "And", "Or" }
       /\ NamedOperator(filters[i].c[1]) = NamedOperator(filters[1].c[1])

AllRender ==
  \A i \in 1..Len(filters) :
    FilterCondition_to_sql(Coerced(filters[i]).val, case_insensitive).ok

\* C2: a list of n >= 2 accepted items, all but the last with the same
\* connector c and the last with none, whose conditions all render, builds
\* to ' WHERE (s1 c s2 ... c sn)': one Group with operator c holding the n
\* conditions in input order and nothing nested.
C2_UniformRunIsOneGroup ==
  (pc = "built" /\ UniformConnectors /\ AllRender) =>
    LET c == NamedOperator(filters[1].c[1])
        s == [i \in 1..Len(filters) |->
                FilterCondition_to_sql(Coerced(filters[i]).val,
                                       case_insensitive).val]
        sql == output[1].val
    IN  /\ output[1].ok
        /\ root # None /\ IsRun(root[1]) /\ root[1].operator = c
        /\ Len(root[1].expressions) = Len(filters)
        /\ OccursAt(Where \o LP, sql, 0)
        /\ sql[Len(sql)] = ")"
        /\ IsJoinOf(SubSeq(sql, Len(Where) + 2, Len(sql) - 1), s,
                    IF c = "And" THEN << " ", "A", "N", "D", " " >>
                    ELSE << " ", "O", "R", " " >>)

C2_Witness ==
  /\ pc = "built" /\ UniformConnectors /\ AllRender
  /\ Len(filters) = 3
  /\ NamedOperator(filters[1].c[1]) = "Or"
  /\ filters[1].n # filters[2].n

\* C3: a run closed while it holds exactly one condition, by a differing
\* connector or by the end of the input, is flushed bare: no piece added to
\* the builder is a Group with a single child.
C3_SingletonRunFlushedBare ==
  \A k \in 1..Len(flushes) :
    flushes[k].why \in { "switch", "final" } =>
      ~(flushes[k].piece.kind = "Group"
        /\ Len(flushes[k].piece.expressions) = 1)

\* C4: input order is preserved and nothing is lost: the leaves of an
\* accepted result, left to right, are exactly the conditions coerced from
\* the input items in input order.
C4_LeavesAreInputInOrder ==
  Accepted =>
    /\ (root = None) = (filters = << >>)
    /\ root # None => Leaves(root[1]) = CoercedConditions(Len(filters))

C4_Witness ==
  /\ pc = "done" /\ Len(filters) = 3
  /\ filters[1].c = None
  /\ IsSome(filters[2].c) /\ NamedOperator(filters[2].c[1]) = "Or"
  /\ filters[1].n # filters[3].n
  /\ Len(Leaves(root[1])) = 3

\* C5: pieces flushed separately are only ever combined by AND, and an Or
\* Group is always a single run: the root is the left-nested AND chain of
\* the flushed pieces, every piece is a Condition or a Group of Condition
\* leaves, every Or Group of the tree has only Condition children, and the
\* leaves of the pieces are consecutive input items.
C5_FlushesConjoin ==
  /\ (root = None) = (flushes = << >>)
  /\ root # None =>
       /\ root[1] = AndChain(FlushedPieces)
       /\ \A k \in 1..Len(flushes) :
            flushes[k].piece.kind = "Condition" \/ IsRun(flushes[k].piece)
       /\ \A g \in Nodes(root[1]) :
            (g.kind = "Group" /\ g.operator = "Or") => IsRun(g)
       /\ Leaves(root[1])
            = CoercedConditions(Len(Leaves(root[1])))

C5_Witness ==
  /\ pc = "done" /\ Len(flushes) = 2
  /\ flushes[2].piece.kind = "Group" /\ flushes[2].piece.operator = "Or"
  /\ Len(flushes[2].piece.expressions) = 2

(***************************************************************************)
(* Properties of the compiler.                                             *)
(***************************************************************************)
\* the SQL string literals of a text, decoded ('' inside a literal is one
\* quote); None when a literal is left unterminated
RECURSIVE ScanLiterals(_, _, _, _)
ScanLiterals(t, inside, cur, acc) ==
  IF t = << >> THEN (IF inside THEN None ELSE Some(acc))
  ELSE IF ~inside
  THEN ScanLiterals(Tail(t), Head(t) = "'", << >>, acc)
  ELSE IF Head(t) # "'"
  THEN ScanLiterals(Tail(t), TRUE, Append(cur, Head(t)), acc)
  ELSE IF Len(t) >= 2 /\ t[2] = "'"
  THEN ScanLiterals(Tail(Tail(t)), TRUE, Append(cur, "'"), acc)
  ELSE ScanLiterals(Tail(t), FALSE, << >>, Append(acc, cur))

SqlStringLiterals(t) == ScanLiterals(t, FALSE, << >>, << >>)

Rendered == pc = "rendered"

RenderedCondition == Rendered /\ expression[1].kind = "Condition"

RenderedGroup == Rendered /\ expression[1].kind = "Group"

IsEmptyGroup(e) == e.kind = "Group" /\ e.expressions = << >>

\* a Group without its empty-Group children
ElideEmpty(e) ==
  Group(e.operator, SelectSeq(e.expressions, LAMBDA x : ~IsEmptyGroup(x)))

\* C6: a Group with zero children renders as the empty string, and an
\* empty Group that is a child of a Group with other children is elided
\* from the parent's join: the parent renders as it would without that
\* child, with no dangling connector after '(' or before ')'.
C6_EmptyGroupElided ==
  (RenderedGroup /\ output[1].ok) =>
    LET e == expression[1]
        sql == output[1].val
    IN  /\ e.expressions = << >> => sql = << >>
        /\ ElideEmpty(e).expressions # << >> =>
             /\ sql = FilterExpression_to_sql(ElideEmpty(e), case_insensitive).val
             /\ ~OccursAt(LP \o Separator(e.operator), sql, 0)
             /\ ~OccursAt(Separator(e.operator) \o RP, sql,
                          Len(sql) - Len(Separator(e.operator)) - 1)

\* C7: a Group with at least one child, all of whose children render,
\* renders as '(' + the children's SQL in child order joined by ' AND '
\* (And) or ' OR ' (Or) + ')', also when it has a single child.
C7_GroupIsParenthesisedJoin ==
  LET e == expression[1]
      child == [i \in 1..Len(e.expressions) |->
                  FilterExpression_to_sql(e.expressions[i], case_insensitive)]
  IN  (RenderedGroup /\ e.expressions # << >>
       /\ \A i \in 1..Len(child) : child[i].ok) =>
        LET sql == output[1].val
        IN  /\ output[1].ok
            /\ Len(sql) >= 2 /\ sql[1] = "(" /\ sql[Len(sql)] = ")"
            /\ IsJoinOf(SubSeq(sql, 2, Len(sql) - 1),
                        [i \in 1..Len(child) |-> child[i].val],
                        IF e.operator = "And" THEN << " ", "A", "N", "D", " " >>
                        ELSE << " ", "O", "R", " " >>)

C7_Witness ==
  /\ RenderedGroup /\ output[1].ok
  /\ expression[1].operator = "Or"
  /\ Len(expression[1].expressions) = 2
  /\ expression[1].expressions[1].kind = "Group"
  /\ Len(expression[1].expressions[1].expressions) = 1
  /\ expression[1].expressions[2].kind = "Condition"

\* the pieces of a comma-separated list, trimmed
TrimmedItems(v) == MapSeq(Trim, Split(v))

\* the caller-supplied literals that condition c puts between quotes, in
\* the order they are rendered
QuotedInputs(c) ==
  LET t == TypeOf(c)
  IN
  CASE t \in StringTypes /\ IsSome(ValueOf(c)) ->
         (CASE OperatorOf(c) \in { "Equal", "NotEqual", "Like", "NotLike" } ->
                 << ValueOf(c)[1] >>
            [] OperatorOf(c) = "StartsWith" -> << ValueOf(c)[1] \o << "%" >> >>
            [] OperatorOf(c) = "EndsWith" -> << << "%" >> \o ValueOf(c)[1] >>
            [] OperatorOf(c) \in { "In", "NotIn" } -> TrimmedItems(ValueOf(c)[1])
            [] OTHER -> << >>)
    [] t \in StringTypes /\ OperatorOf(c) \in { "StartsWith", "EndsWith" } ->
         << << "%" >> >>
    [] t \in DateTimeTypes /\ IsSome(ValueOf(c))
         /\ OperatorOf(c) \in ComparisonOperators -> << ValueOf(c)[1] >>
    [] t = "UUIDValue" /\ IsSome(ValueOf(c)) ->
         (CASE OperatorOf(c) \in { "Equal", "NotEqual" } -> << ValueOf(c)[1] >>
            [] OperatorOf(c) \in { "In", "NotIn" } -> TrimmedItems(ValueOf(c)[1])
            [] OTHER -> << >>)
    [] t = "DateRange" ->
         (CASE RangeTypeOf(c).kind \in { "Exact", "DateOnly" } ->
                 << RangeTypeOf(c).start >>
            [] RangeTypeOf(c).kind = "Range" ->
                 << RangeTypeOf(c).start, RangeTypeOf(c).end >>
            [] OTHER -> << >>)
    [] t = "ArrayHas" -> << ValueOf(c) >>
    [] t = "ArrayContains" -> TrimmedItems(ValueOf(c))
    [] t = "JSONValue" ->
         (IF IsSome(PathOf(c)) THEN << PathOf(c)[1] >> ELSE << >>)
         \o (IF IsSome(ValueOf(c)) /\ OperatorOf(c) \in { "Equal", "NotEqual" }
             THEN << ValueOf(c)[1] >> ELSE << >>)
    [] t = "InValues" ->
         IF ColumnTypeOf(c) = Some("String") THEN ValuesOf(c)
         ELSE SelectSeq(ValuesOf(c), LAMBDA v : ~ParsesAsF64(v))
    [] OTHER -> << >>

IsRelativeDateRange(c) ==
  TypeOf(c) = "DateRange" /\ RangeTypeOf(c).kind = "Relative"

\* C8: quote doubling is applied to every caller-supplied literal of every
\* condition kind but the DateRange Relative expression: the string
\* literals of the rendered SQL, read back with '' as one quote, are
\* exactly the supplied literals.
C8_QuoteDoublingEverywhere ==
  (RenderedCondition /\ output[1].ok
   /\ ~IsRelativeDateRange(expression[1].condition)) =>
    SqlStringLiterals(output[1].val)
      = Some(QuotedInputs(expression[1].condition))

\* the conditions whose literals go through escape_string or replace
EscapedKind(c) ==
  \/ TypeOf(c) \in StringTypes
  \/ TypeOf(c) \in { "ArrayHas", "ArrayContains", "InValues" }
  \/ TypeOf(c) = "JSONValue"

\* the rendered SQL after the JSON column reference, whose path is
\* interpolated as it is
AfterColumn(c, sql) ==
  IF TypeOf(c) = "JSONValue"
  THEN LET skip == Len(JsonColumn(c))
                   + (IF OccursAt(LowerP, sql, 0) THEN Len(LowerP) + 1 ELSE 0)
       IN  SubSeq(sql, skip + 1, Len(sql))
  ELSE sql

QuotedValues(c) ==
  IF TypeOf(c) = "JSONValue"
  THEN (IF IsSome(ValueOf(c)) /\ OperatorOf(c) \in { "Equal", "NotEqual" }
        THEN << ValueOf(c)[1] >> ELSE << >>)
  ELSE QuotedInputs(c)

\* C9: for the string-family conditions, ArrayHas, the elements of
\* ArrayContains, the JSONValue value and the quoted elements of InValues,
\* under both case_insensitive settings, the rendered literal is the input
\* with every quote doubled and nothing else changed: read back with '' as
\* one quote, the literals of the SQL are the inputs, character for
\* character, and the SQL has two quotes per literal plus two per input quote.
C9_LiteralIsInputWithQuotesDoubled ==
  (RenderedCondition /\ output[1].ok /\ EscapedKind(expression[1].condition)) =>
    LET c == expression[1].condition
        sql == AfterColumn(c, output[1].val)
        inputs == QuotedValues(c)
        Quotes(t) == Cardinality({ i \in 1..Len(t) : t[i] = "'" })
        RECURSIVE InputQuotes(_)
        InputQuotes(k) == IF k = 0 THEN 0
                          ELSE InputQuotes(k - 1) + Quotes(inputs[k])
    IN  /\ SqlStringLiterals(sql) = Some(inputs)
        /\ Quotes(sql) = 2 * Len(inputs) + 2 * InputQuotes(Len(inputs))

C9_Witness ==
  /\ RenderedCondition /\ output[1].ok /\ case_insensitive
  /\ TypeOf(expression[1].condition) = "FixedStringValue"
  /\ OperatorOf(expression[1].condition) = "NotIn"
  /\ ValueOf(expression[1].condition) = Some(<< "'", ",", "x" >>)

\* C10: with case_insensitive a string-family Equal / NotEqual / Like /
\* NotLike with a value renders as lower(<column>) <op> lower('<escaped>'),
\* and without case_insensitive no rendering has a lower( wrapper at all.
C10_CaseFolding ==
  /\ (RenderedCondition /\ case_insensitive
      /\ TypeOf(expression[1].condition) \in StringTypes
      /\ OperatorOf(expression[1].condition)
           \in { "Equal", "NotEqual", "Like", "NotLike" }
      /\ IsSome(ValueOf(expression[1].condition))) =>
       LET c == expression[1].condition
           sql == output[1].val
           left == LowerP \o ColumnOf(c) \o RP \o SP
                   \o FilterOperator_as_sql(OperatorOf(c)) \o SP \o LowerP
       IN  /\ output[1].ok
           /\ OccursAt(left, sql, 0)
           /\ sql[Len(sql)] = ")"
           /\ SqlStringLiterals(SubSeq(sql, Len(left) + 1, Len(sql) - 1))
                = Some(<< ValueOf(c)[1] >>)
           /\ sql[Len(left) + 1] = "'" /\ sql[Len(sql) - 1] = "'"
  /\ (Rendered /\ ~case_insensitive /\ output[1].ok) =>
       ~Contains(output[1].val, LowerP)

C10_Witness ==
  /\ RenderedCondition /\ case_insensitive /\ output[1].ok
  /\ TypeOf(expression[1].condition) = "StringValue"
  /\ OperatorOf(expression[1].condition) = "NotLike"
  /\ ValueOf(expression[1].condition) = Some(<< "x", "'", " " >>)

(***************************************************************************)
(* Properties of the error paths.                                          *)
(***************************************************************************)
\* the variants that carry a typed Option value
ValueBearingTypes ==
  StringTypes \cup IntegerTypes \cup FloatTypes \cup DateTimeTypes
  \cup { "BooleanValue", "UUIDValue", "JSONValue" }

\* comparison and LIKE operators: the ones that need a right-hand side
ValueRequiringOperators == ComparisonOperators \cup { "Like", "NotLike" }

\* C11: a value-less non-null-check operator is an error: rendering a typed
\* condition whose value is None and whose operator is a comparison or
\* LIKE / NOT LIKE returns an error and no SQL text.
C11_ValuelessOperatorIsError ==
  (RenderedCondition
   /\ TypeOf(expression[1].condition) \in ValueBearingTypes
   /\ ValueOf(expression[1].condition) = None
   /\ OperatorOf(expression[1].condition) \in ValueRequiringOperators) =>
    ~output[1].ok

\* position of the first input item that does not coerce, 0 if all do
FirstRejected ==
  LET bad == { i \in 1..Len(filters) : ~Coerced(filters[i]).ok }
  IN  IF bad = {} THEN 0 ELSE CHOOSE i \in bad : \A j \in bad : i <= j

\* the error of the leftmost leaf of e that does not render, None if all do
FirstLeafError(e, ci) ==
  LET r == [i \in 1..Len(Leaves(e)) |-> FilterCondition_to_sql(Leaves(e)[i], ci)]
      bad == { i \in 1..Len(r) : ~r[i].ok }
  IN  IF bad = {} THEN None
      ELSE Some(r[CHOOSE i \in bad : \A j \in bad : i <= j])

\* C12: first error wins and no partial SQL is returned: to_sql on a tree
\* and build on a builder return the error of the leftmost failing
\* Condition whenever one fails, and succeed otherwise; from_json_filters
\* stops with the error of the first item that does not coerce, whatever
\* precedes or follows it, and returns a builder only when every item
\* coerces.
C12_FirstErrorWins ==
  /\ Rendered =>
       LET err == FirstLeafError(expression[1], case_insensitive)
       IN  IF err # None THEN output[1] = err[1] ELSE output[1].ok
  /\ (pc = "built" /\ root # None) =>
       LET err == FirstLeafError(root[1], case_insensitive)
       IN  IF err # None THEN output[1] = err[1] ELSE output[1].ok
  /\ pc = "failed" =>
       /\ idx = FirstRejected
       /\ output = Some(Coerced(filters[idx]))
       /\ ~output[1].ok
  /\ pc \in { "done", "built" } => FirstRejected = 0
  /\ pc = "loop" => FirstRejected = 0 \/ FirstRejected > idx

C12_Witness ==
  /\ Rendered
  /\ expression[1] = Group("And", << Group("Or", << LeafAge, LeafIn >>), LeafBad >>)
  /\ output[1] = FilterCondition_to_sql(LeafIn.condition, case_insensitive)
  /\ output[1] # FilterCondition_to_sql(LeafBad.condition, case_insensitive)

\* the column kinds declared as integers or floats, of any width
NumericKinds ==
  IntegerKinds \cup { "UInt128", "UInt256", "Int128", "Int256", "Float32", "Float64" }

\* a literal that is no number of any type: empty, or holding a character
\* that is neither a digit, a sign nor a decimal point
NotANumber(v) ==
  \/ v = << >>
  \/ \E i \in 1..Len(v) : ~IsDigit(v[i]) /\ v[i] \notin { "+", "-", "." }

\* the number of comma-separated parts of a literal, counted on its text
CommaParts(v) == Cardinality({ i \in 1..Len(v) : v[i] = "," }) + 1

NullCheckSymbols ==
  { << "I", "S", " ", "N", "U", "L", "L" >>,
    << "I", "S", " ", "N", "O", "T", " ", "N", "U", "L", "L" >> }

\* the items that the coercion stage has to refuse
MustBeRefused(filter) ==
  \/ filter.n \notin DOMAIN column_defs
  \/ /\ filter.n \in DOMAIN column_defs
     /\ ToUpper(filter.f) \in { OperatorSymbols[i][1] : i \in 1..Len(OperatorSymbols) }
     /\ \/ /\ column_defs[filter.n].kind \in NumericKinds
           /\ ToUpper(filter.f) \notin NullCheckSymbols
           /\ NotANumber(filter.v)
        \/ /\ column_defs[filter.n].kind = "Boolean"
           /\ ToUpper(filter.f) \notin NullCheckSymbols
           /\ ToLower(filter.v) \notin TrueTokens \cup FalseTokens
        \/ /\ ToUpper(filter.f) = << "D", "A", "T", "E", "_", "R", "A", "N", "G", "E" >>
           /\ CommaParts(filter.v) # 2

\* C13: from_json_filters fails fast at the coercion stage: it returns a
\* builder only if no item names an unregistered column, carries a
\* non-numeric literal on an integer or float column (any width, any
\* operator but the null checks, IN / NOT IN included), carries an
\* unrecognised token on a boolean column, or is a DATE_RANGE item whose
\* value does not split into exactly two comma-separated parts.
C13_CoercionFailsFast ==
  pc \in { "done", "built" } =>
    \A i \in 1..Len(filters) : ~MustBeRefused(filters[i])

\* the symbols either operator table knows
KnownSymbols ==
  { OperatorSymbols[i][1] : i \in 1..Len(OperatorSymbols) }
  \cup { ParseOperatorSymbols[i][1] : i \in 1..Len(ParseOperatorSymbols) }

\* C14: the two operator-symbol entry points differ on unknown symbols:
\* parse_operator always returns an operator, and Equal for a symbol outside
\* the known set; to_filter_condition, and with it from_json_filters,
\* returns an error for a symbol outside the known set whatever the column
\* kind and the value.
C14_UnknownSymbols ==
  /\ pc = "parsed" =>
       /\ output[1] \in FilterOperators
       /\ ToUpper(filters[1].f) \notin KnownSymbols => output[1] = "Equal"
  /\ (pc \in { "loop", "done", "built", "failed" } /\ idx >= 1) =>
       \A i \in 1..idx :
         (filters[i].n \in DOMAIN column_defs
          /\ ToUpper(filters[i].f) \notin KnownSymbols) =>
           /\ pc = "failed" /\ idx = i
           /\ ~output[1].ok

C14_Witness ==
  /\ pc = "failed"
  /\ filters[1].n \in DOMAIN column_defs
  /\ column_defs[filters[1].n].kind = "Boolean"
  /\ filters[1].f = << "B", "E", "T", "W", "E", "E", "N" >>
  /\ filters[1].v = << "y", "e", "s" >>

\* a condition that carries no value at all
CarriesNoValue(c) ==
  \/ TypeOf(c) = "InValues" /\ ValuesOf(c) = << >>
  \/ TypeOf(c) \in ValueBearingTypes /\ ValueOf(c) = None

\* C15: IN / NOT IN with no value is a structural error: rendering a
\* condition whose operator is In or NotIn and which carries no value (None
\* on a typed condition, an empty list on InValues) returns an error, never
\* SQL such as 'col IN ()'.
C15_InWithoutValueIsError ==
  (RenderedCondition
   /\ TypeOf(expression[1].condition) \in ValueBearingTypes \cup { "InValues" }
   /\ OperatorOf(expression[1].condition) \in { "In", "NotIn" }
   /\ CarriesNoValue(expression[1].condition)) =>
    ~output[1].ok

(***************************************************************************)
(* Properties of the null checks and of the empty filter.                  *)
(***************************************************************************)
\* the column reference of a condition, spelled out
ColumnReference(c) ==
  IF TypeOf(c) = "JSONValue" /\ PathOf(c) # None
  THEN << "J", "S", "O", "N", "E", "x", "t", "r", "a", "c", "t", "S", "t", "r",
          "i", "n", "g", "(" >>
       \o ColumnOf(c) \o << ",", " ", "'" >> \o PathOf(c)[1] \o << "'", ")" >>
  ELSE ColumnOf(c)

\* what a null check has to render
NullCheckText(c) ==
  ColumnReference(c)
  \o (IF OperatorOf(c) = "IsNull" THEN << " ", "I", "S", " ", "N", "U", "L", "L" >>
      ELSE << " ", "I", "S", " ", "N", "O", "T", " ", "N", "U", "L", "L" >>)

\* C16 as stated: every variant that carries an operator (all but
\* DateRange) renders IsNull as '<column> IS NULL' and IsNotNull as
\* '<column> IS NOT NULL', whatever its type, value and case_insensitive.
C16_NullCheckOnEveryVariant ==
  (RenderedCondition
   /\ TypeOf(expression[1].condition) # "DateRange"
   /\ OperatorOf(expression[1].condition) \in { "IsNull", "IsNotNull" }) =>
    output[1] = Ok(NullCheckText(expression[1].condition))

\* C16: every variant that carries an operator and an optional value
\* (string, integer, float, date/time, boolean, UUID, JSONValue) renders
\* IsNull as '<column> IS NULL' and IsNotNull as '<column> IS NOT NULL',
\* whatever its value and case_insensitive; for a JSONValue with a path
\* <column> is the JSONExtractString expression.
C16_NullCheckOnValueBearingVariants ==
  (RenderedCondition
   /\ TypeOf(expression[1].condition) \in ValueBearingTypes
   /\ OperatorOf(expression[1].condition) \in { "IsNull", "IsNotNull" }) =>
    output[1] = Ok(NullCheckText(expression[1].condition))

C16_Witness ==
  /\ RenderedCondition /\ case_insensitive
  /\ TypeOf(expression[1].condition) = "JSONValue"
  /\ OperatorOf(expression[1].condition) = "IsNotNull"
  /\ PathOf(expression[1].condition) = Some(<< "p" >>)
  /\ ValueOf(expression[1].condition) = Some(<< "x" >>)
  /\ output[1].ok

\* C17: build() on the result of from_json_filters returns the empty string
\* exactly when the input list is empty: an empty list gives a builder with
\* no root (and no FilteringOptions); a non-empty accepted list gives a
\* builder with a root in whose tree no Group has zero children, and build()
\* then returns an error or a string that starts with ' WHERE '.
C17_EmptyExactlyWhenNoFilters ==
  /\ Accepted =>
       /\ (root = None) = (filters = << >>)
       /\ (FilteringOptions_from_json_filters(filters, root, column_defs) = None)
            = (filters = << >>)
       /\ root # None =>
            \A e \in Nodes(root[1]) : e.kind = "Group" => e.expressions # << >>
  /\ pc = "built" =>
       /\ (output[1] = Ok(<< >>)) = (filters = << >>)
       /\ filters # << >> =>
            \/ ~output[1].ok
            \/ /\ output[1].ok
               /\ OccursAt(<< " ", "W", "H", "E", "R", "E", " " >>, output[1].val, 0)
               /\ Len(output[1].val) > 7

C17_Witness ==
  /\ pc = "built"
  /\ Len(filters) = 2
  /\ IsSome(filters[1].c) /\ IsSome(filters[2].c)
  /\ NamedOperator(filters[1].c[1]) # NamedOperator(filters[2].c[1])
  /\ output[1].ok

(***************************************************************************)
(* Properties of sorting and pagination.                                   *)
(***************************************************************************)
\* position of the first element of the input with a given column name
FirstOccurrence(name) ==
  CHOOSE i \in 1..Len(columns) :
    /\ columns[i].column = name
    /\ \A j \in 1..(i - 1) : columns[j].column # name

\* C18: Sorting::new canonicalises its input: the resulting columns and
\* ORDER BY clause list each distinct column name of the input exactly once,
\* in ascending order of column name, each with the direction of its first
\* occurrence in the input; an empty input gives the empty string.
C18_SortingCanonical ==
  pc = "sorted" =>
    LET r == output[1].columns
        sql == output[1].sql
        text == [k \in 1..Len(r) |->
                   r[k].column \o (IF r[k].order = "Desc"
                                   THEN << " ", "D", "E", "S", "C" >>
                                   ELSE << " ", "A", "S", "C" >>)]
    IN  /\ { r[k].column : k \in 1..Len(r) }
             = { columns[i].column : i \in 1..Len(columns) }
        /\ \A k \in 1..(Len(r) - 1) :
             r[k].column # r[k + 1].column /\ StringLeq(r[k].column, r[k + 1].column)
        /\ \A k \in 1..Len(r) :
             r[k].order = columns[FirstOccurrence(r[k].column)].order
        /\ columns = << >> => sql = << >>
        /\ columns # << >> =>
             /\ OccursAt(<< " ", "O", "R", "D", "E", "R", " ", "B", "Y", " " >>, sql, 0)
             /\ IsJoinOf(SubSeq(sql, 11, Len(sql)), text, << ",", " " >>)

C18_Witness ==
  /\ pc = "sorted"
  /\ Len(columns) = 3
  /\ columns[1] = [column |-> << "b" >>, order |-> "Desc"]
  /\ columns[2] = [column |-> << "B" >>, order |-> "Asc"]
  /\ columns[3] = [column |-> << "b" >>, order |-> "Asc"]
  /\ Len(output[1].columns) = 2

\* C19: for every input to Paginate::new the resulting per_page lies in
\* (0, per_page_limit], an invalid per_page_limit (<= 0) being replaced by
\* 10 first: a per_page above the limit is capped to the limit and a
\* per_page <= 0 is replaced by the default without exceeding the limit.
C19_PerPageWithinLimit ==
  pc = "paginated" =>
    LET limit == IF per_page_limit > 0 THEN per_page_limit ELSE 10
        result == output[1].pagination.per_page
    IN  /\ 0 < result /\ result <= limit
        /\ per_page > limit => result = limit

\* C20: for every input to Paginate::new the resulting current_page is
\* clamped into [1, total_pages] when total_pages > 0, and is 1 when
\* total_pages is 0, whatever current_page was requested.
C20_CurrentPageClamped ==
  pc = "paginated" =>
    LET p == output[1].pagination
    IN  /\ p.total_pages > 0 => (1 <= p.current_page /\ p.current_page <= p.total_pages)
        /\ p.total_pages = 0 => p.current_page = 1

\* the result of Paginate::new
Paginated == pc = "paginated"

\* the decimal digits of a natural number, by repeated division
RECURSIVE Decimal(_)
Decimal(n) ==
  IF n < 10 THEN << Digits[n + 1] >>
  ELSE Decimal(n \div 10) \o << Digits[(n % 10) + 1] >>

\* C21: Paginate::new computes, from the clamped values, total_pages =
\* ceil(total_records / per_page) (0 when total_records <= 0) and offset =
\* per_page * (current_page - 1), and its sql is exactly
\* 'LIMIT <per_page> OFFSET <offset>'.
C21_TotalPagesOffsetAndSql ==
  Paginated =>
    LET p == output[1].pagination
        offset == p.per_page * (p.current_page - 1)
    IN  /\ p.total_records = (IF total_records > 0 THEN total_records ELSE 0)
        /\ total_records <= 0 => p.total_pages = 0
        /\ total_records > 0 =>
             /\ (p.total_pages - 1) * p.per_page < total_records
             /\ total_records <= p.total_pages * p.per_page
        /\ offset >= 0
        /\ output[1].sql = << "L", "I", "M", "I", "T", " " >> \o Decimal(p.per_page)
                           \o << " ", "O", "F", "F", "S", "E", "T", " " >>
                           \o Decimal(offset)

C21_Witness ==
  /\ Paginated
  /\ current_page = 101 /\ per_page = 10 /\ per_page_limit = 10
  /\ total_records = 1000
  /\ output[1].pagination.current_page = 100
  /\ output[1].pagination.total_pages = 100
  /\ output[1].sql = << "L", "I", "M", "I", "T", " ", "1", "0", " ",
                        "O", "F", "F", "S", "E", "T", " ", "9", "9", "0" >>

\* C27: in the metadata of Pagination::new, previous_page is never less than 1
\* (current_page - 1 when current_page > 1, else 1) and next_page is never
\* more than total_pages (current_page + 1 when current_page < total_pages,
\* the last page itself when current_page is the last page).
C27_NeighbourPagesInRange ==
  Paginated =>
    LET p == output[1].pagination
    IN  /\ p.previous_page >= 1
        /\ p.previous_page = (IF p.current_page > 1 THEN p.current_page - 1 ELSE 1)
        /\ p.next_page <= p.total_pages
        /\ p.current_page < p.total_pages => p.next_page = p.current_page + 1
        /\ p.current_page = p.total_pages => p.next_page = p.current_page

\* the text of the sql after 'LIMIT <per_page> OFFSET '
OffsetText ==
  LET head == << "L", "I", "M", "I", "T", " " >>
              \o Decimal(output[1].pagination.per_page)
              \o << " ", "O", "F", "F", "S", "E", "T", " " >>
  IN  SubSeq(output[1].sql, Len(head) + 1, Len(output[1].sql))

\* C30: the offset Paginate::new writes into its sql is non-negative, and
\* when total_records > 0 it is strictly less than total_records, so the
\* window starts inside the result set.
C30_OffsetInsideResultSet ==
  Paginated =>
    /\ OffsetText # << >>
    /\ \A i \in 1..Len(OffsetText) : IsDigit(OffsetText[i])
    /\ total_records > 0 => DigitsValue(OffsetText) < total_records

C30_Witness ==
  /\ Paginated
  /\ total_records = 25 /\ current_page = 7 /\ per_page = 10
  /\ per_page_limit = 15
  /\ OffsetText = << "2", "0" >>

(***************************************************************************)
(* Properties of the connector-less items of from_json_filters.            *)
(***************************************************************************)
\* some item before position i carried a connector
RunOpenedBefore(i) == \E j \in 1..(i - 1) : IsSome(filters[j].c)

\* C23: an item with no connector never closes a run: once any earlier item
\* carried a connector, a connector-less item is appended to the open run,
\* under that run's operator, and the builder is left alone; only while no
\* run has ever been opened is it AND-appended directly to the root.
C23_PlainItemNeverClosesRun ==
  [][ (pc = "loop" /\ pc' = "loop" /\ idx' = idx + 1 /\ filters[idx'].c = None)
      => LET piece == Condition(Coerced(filters[idx']).val)
         IN  IF RunOpenedBefore(idx')
             THEN /\ root' = root /\ flushes' = flushes
                  /\ IsSome(current_group) /\ IsSome(current_group')
                  /\ current_group'[1].operator = current_group[1].operator
                  /\ current_group'[1].expressions =
                       Append(current_group[1].expressions, piece)
             ELSE /\ current_group = None /\ current_group' = None
                  /\ root' = IF root = None THEN Some(piece)
                             ELSE Some(Group("And", << root[1], piece >>))
    ]_vars

\* [a OR, b, c]: one open OR run holding a, b and c, nothing in the builder
C23_Witness ==
  /\ pc = "loop" /\ idx = 3
  /\ IsSome(filters[1].c) /\ NamedOperator(filters[1].c[1]) = "Or"
  /\ filters[2].c = None /\ filters[3].c = None
  /\ root = None
  /\ IsSome(current_group)
  /\ current_group[1].operator = "Or"
  /\ Len(current_group[1].expressions) = 3

\* the four spellings of OR
OrSpellings == { << "O", "R" >>, << "o", "r" >>, << "O", "r" >>, << "o", "R" >> }

\* C28: from_json_filters never rejects an item because of its connector
\* text, and matches the text without regard to letter case: 'OR' in any
\* case selects Or, every other text ('AND' in any case, the empty text,
\* unknown words) selects And.
C28_ConnectorTextNeverRejected ==
  [][ (pc = "loop" /\ idx' = idx + 1)
      => LET filter == filters[idx']
         IN  /\ pc' = "failed" <=> ~Coerced(filter).ok
             /\ (pc' = "loop" /\ IsSome(filter.c)) =>
                  LET op == IF filter.c[1] \in OrSpellings THEN "Or" ELSE "And"
                  IN  /\ last_connector' = Some(op)
                      /\ IsSome(current_group')
                      /\ current_group'[1].operator = op
    ]_vars

\* [a 'or', b '']: the lower-case run was Or, the empty text opened an And run
C28_Witness ==
  /\ pc = "loop" /\ idx = 2
  /\ filters[1].c = Some(<< "o", "r" >>)
  /\ filters[2].c = Some(<< >>)
  /\ IsSome(root) /\ flushes # << >>
  /\ IsSome(current_group) /\ current_group[1].operator = "And"

\* C29: the two operator-symbol tables agree on every symbol that
\* to_filter_condition recognises, in any letter case: parse_operator
\* returns the operator that to_filter_condition selects for it.
C29_OperatorTablesAgree ==
  (pc = "parsed" /\ IsSome(OperatorOfSymbol(filters[1].f))) =>
    output[1] = OperatorOfSymbol(filters[1].f)[1]

\* text t ends with text s
EndsWith(t, s) == Len(s) <= Len(t) /\ OccursAt(s, t, Len(t) - Len(s))

\* C25: every condition built by to_filter_condition that has an optional
\* value field has value None exactly when its operator is IsNull or
\* IsNotNull, for every column kind and literal; so no leaf of the flat path
\* renders as '<column> <op>' with nothing to the right of the operator.
C25_ValueNoneExactlyOnNullCheck ==
  /\ IsSome(root) =>
       \A i \in 1..Len(Leaves(root[1])) :
         LET c == Leaves(root[1])[i]
         IN  TypeOf(c) \in ValueBearingTypes =>
               (ValueOf(c) = None <=> OperatorOf(c) \in { "IsNull", "IsNotNull" })
  /\ (pc = "built" /\ output[1].ok) =>
       \A op \in FilterOperators \ { "IsNull", "IsNotNull" } :
         ~EndsWith(output[1].val, SP \o FilterOperator_as_sql(op))

C25_Witness ==
  /\ pc = "built" /\ output[1].ok
  /\ column_defs[ColName].kind = "JSON"
  /\ IsSome(root)
  /\ TypeOf(root[1].condition) = "JSONValue"
  /\ OperatorOf(root[1].condition) = "NotEqual"
  /\ ValueOf(root[1].condition) = Some(<< "v" >>)
  /\ PathOf(root[1].condition) = Some(<< "p" >>)

(***************************************************************************)
(* Properties of the builder and of the facade.                            *)
(***************************************************************************)
\* C24: the first append on an empty builder sets the root to the appended
\* piece, and every later append replaces root r by Group{And, [r, new]} with
\* r unchanged as the first child: the root is the left-nested chain of
\* two-child AND groups over the pieces in append order, nothing is
\* flattened, and the case_insensitive flag is left as it was.
C24_AppendNestsAndFrames ==
  [][ (pc = "builder" /\ idx' = idx + 1)
      => LET piece == flushes'[Len(flushes')].piece
         IN  /\ Len(flushes') = Len(flushes) + 1
             /\ root = None => root' = Some(piece)
             /\ root # None =>
                  /\ root'[1].kind = "Group" /\ root'[1].operator = "And"
                  /\ root'[1].expressions = << root[1], piece >>
             /\ root' = Some(AndChain([k \in 1..Len(flushes') |-> flushes'[k].piece]))
             /\ case_insensitive' = case_insensitive
    ]_vars

\* three appends, the last one group(And, [..2 children..]) onto an AND root
C24_Witness ==
  /\ pc = "builder" /\ idx = 3
  /\ flushes[1].why = "add_condition"
  /\ flushes[2].why = "add_expression"
  /\ flushes[3].why = "group"
  /\ flushes[3].piece.operator = "And"
  /\ Len(flushes[3].piece.expressions) = 2
  /\ root[1].expressions = << Group("And", << flushes[1].piece, flushes[2].piece >>),
                              flushes[3].piece >>

\* the SQL of each expression of the options, in list order
OptionRenderings ==
  [i \in 1..Len(filtering_options[1].expressions) |->
     FilterExpression_to_sql(filtering_options[1].expressions[i],
                             filtering_options[1].case_insensitive)]

\* to_sql was applied to options whose expressions all render
OptionsRendered ==
  /\ pc = "options_sql"
  /\ \A i \in 1..Len(OptionRenderings) : OptionRenderings[i].ok

\* ' WHERE (e1 AND e2 AND ... AND ek)' over the renderings, by position
IsFlatAndGroup(text) ==
  /\ Len(text) >= Len(Where) + 2
  /\ OccursAt(Where \o LP, text, 0)
  /\ text[Len(text)] = ")"
  /\ IsJoinOf(SubSeq(text, Len(Where) + 2, Len(text) - 1),
              [i \in 1..Len(OptionRenderings) |-> OptionRenderings[i].val],
              << " ", "A", "N", "D", " " >>)

\* C26 as stated: FilteringOptions::to_sql over k expressions gives the empty
\* string for k = 0, ' WHERE ' followed by the expression's SQL with no added
\* parentheses for k = 1, and ' WHERE (e1 AND ... AND ek)' with one added
\* parenthesis pair and the expressions in list order for k >= 2.
C26_OptionsSqlAsStated ==
  OptionsRendered =>
    LET k == Len(OptionRenderings)
    IN  /\ output[1].ok
        /\ k = 0 => output[1].val = << >>
        /\ k = 1 => output[1].val = Where \o OptionRenderings[1].val
        /\ k >= 2 => IsFlatAndGroup(output[1].val)

\* C26, amended: as stated, except that for k = 1 an expression whose SQL is
\* empty (a Group with no children) gives the empty string, with no ' WHERE ';
\* when some expression does not render, to_sql returns an error.
C26_OptionsSql ==
  /\ OptionsRendered =>
       LET k == Len(OptionRenderings)
       IN  /\ output[1].ok
           /\ k = 0 => output[1].val = << >>
           /\ k = 1 => output[1].val =
                         IF OptionRenderings[1].val = << >> THEN << >>
                         ELSE Where \o OptionRenderings[1].val
           /\ k >= 2 => IsFlatAndGroup(output[1].val)
  /\ (pc = "options_sql" /\ ~OptionsRendered) => ~output[1].ok

\* three expressions, a group among them, folded to lower case
C26_Witness ==
  /\ OptionsRendered
  /\ filtering_options[1].case_insensitive
  /\ filtering_options[1].expressions =
       << LeafName, Group("Or", << LeafAge, LeafName >>), LeafAge >>
  /\ output[1].ok

\* the three fragments of the components handed to the facade, each empty
\* when its component is absent
WhereFragment ==
  IF filtering_options = None THEN Ok(<< >>)
  ELSE FilteringOptions_to_sql(filtering_options[1])

OrderByFragment == IF columns = << >> THEN << >> ELSE Sorting_new(columns).sql

LimitFragment ==
  IF pagination_options = None THEN << >>
  ELSE SP \o Paginate_new(pagination_options[1].current_page,
                          pagination_options[1].per_page,
                          pagination_options[1].per_page_limit,
                          pagination_options[1].total_records).sql

\* 'SELECT <cols> FROM <schema>.<table>', '*' for an empty column list
SelectPrefix ==
  << "S", "E", "L", "E", "C", "T", " " >>
  \o (IF query_args.columns = << >> THEN << "*" >>
      ELSE Join(query_args.columns, << ",", " " >>))
  \o << " ", "F", "R", "O", "M", " " >>
  \o query_args.schema \o << "." >> \o query_args.table

CountPrefix ==
  << "S", "E", "L", "E", "C", "T", " ", "C", "O", "U", "N", "T", "(", "*", ")",
     " ", "F", "R", "O", "M", " " >>
  \o query_args.schema \o << "." >> \o query_args.table

\* C22: query_sql returns 'SELECT <cols> FROM <schema>.<table>' ('*' when the
\* column list is empty) followed, in this order, by the WHERE fragment, the
\* ORDER BY fragment and ' ' plus the LIMIT/OFFSET fragment, each present
\* only when its component is; count_sql returns 'SELECT COUNT(*) FROM
\* <schema>.<table>' followed by the same WHERE fragment and nothing of the
\* sorting or the pagination; query_sql is its SELECT prefix followed by
\* sql().  All three fail when the WHERE fragment does.
C22_QueryTextsCompose ==
  pc = "constructed" =>
    LET o == output[1]
    IN  /\ IsSome(o.query_sql) =>
             IF WhereFragment.ok
             THEN o.query_sql[1] = Ok(SelectPrefix \o WhereFragment.val
                                      \o OrderByFragment \o LimitFragment)
             ELSE ~o.query_sql[1].ok
        /\ IsSome(o.count_sql) =>
             IF WhereFragment.ok
             THEN o.count_sql[1] = Ok(CountPrefix \o WhereFragment.val)
             ELSE ~o.count_sql[1].ok
        /\ (IsSome(o.sql) /\ IsSome(o.query_sql)) =>
             /\ o.sql[1].ok = o.query_sql[1].ok
             /\ o.sql[1].ok => o.query_sql[1].val = SelectPrefix \o o.sql[1].val

\* all three methods called on a value with every component present
C22_Witness ==
  /\ pc = "constructed"
  /\ IsSome(filtering_options) /\ Len(filtering_options[1].expressions) = 2
  /\ IsSome(pagination_options) /\ Len(columns) = 2
  /\ Len(query_args.columns) = 2
  /\ IsSome(output[1].sql) /\ IsSome(output[1].count_sql)
  /\ IsSome(output[1].query_sql)
  /\ output[1].query_sql[1].ok
  /\ Contains(output[1].query_sql[1].val, << "W", "H", "E", "R", "E" >>)
  /\ Contains(output[1].query_sql[1].val, << "O", "R", "D", "E", "R" >>)
  /\ Contains(output[1].query_sql[1].val, << "L", "I", "M", "I", "T" >>)

====
